---- MODULE Spec2Model ----
(***************************************************************************)
(* Bio-Voice Commander: the event bus, the voice activity detector, the    *)
(* per-method template matchers and the ECG adapter / manager, modelled    *)
(* from src/src/event_bus.py, src/src/vad.py, src/src/config.py,           *)
(* src/src/audio/recognizers.py, src/src/ecg/adapter.py and                *)
(* src/src/ecg/manager.py.                                                 *)
(*                                                                         *)
(* Each component has its own specification (SpecBus, SpecVAD, ...) over   *)
(* the same variables; the variables of the other components stay at       *)
(* their constructed values.                                               *)
(***************************************************************************)
EXTENDS Integers, Sequences, FiniteSets, TLC

\* ------------------------------------------------------------------------
\* Bounds of the model
\* ------------------------------------------------------------------------
\* publish(), subscribe(), unsubscribe() and stop() calls made on the bus
MaxCalls == 4
\* add_template and add_noise_template calls on the matchers
MaxAdds == 3
\* ECG sample rate (the sample_rate of ECGAdapter and ECGManager), in Hz
FS == 10
\* ECG samples fed to one detector
MaxSamples == 12
\* samples fed in the detection and the mode specifications
DetectSamples == 9
\* clock ticks that pass in the event specification
EventTime == 4
\* samples one serial read of the adapter delivers
MaxBatch == 5
\* clock ticks that pass
MaxTime == 9
\* ECGAdapter(no_signal_timeout=...), (retry_interval=...) and the interval
\* 60 / fallback_bpm of the synthetic peaks, in clock ticks
no_signal_timeout == 4
retry_interval == 3
fallback_interval_sec == 2

\* ------------------------------------------------------------------------
\* Event bus (src/src/event_bus.py)
\* ------------------------------------------------------------------------
SYSTEM_SHUTDOWN == "shutdown"
\* the event types publishers use; SYSTEM_SHUTDOWN is only enqueued by stop()
PubTypes == {"ecg_peak", "voice_command"}
EventType == PubTypes \cup {SYSTEM_SHUTDOWN}
Callbacks == {"cbA", "cbB"}
\* the callbacks that raise an exception whenever they are invoked
RaisingCallbacks == {"cbB"}
NoEvent == [type |-> "none", id |-> 0]
NoUnsub == [type |-> "none", cb |-> "none", at |-> 0, left |-> 0]

VARIABLES
  subscribers,      \* EventBus._subscribers: type -> list of callbacks
  bus_queue,        \* EventBus._queue (queue.Queue, FIFO)
  bus_running,      \* EventBus._running
  dispatch_thread,  \* EventBus._dispatch_thread: "none" or "thread"
  d_pc,             \* position of the dispatcher thread in _dispatch_loop
  d_event,          \* _dispatch_loop: local `event`
  d_callbacks,      \* _dispatch: local `callbacks` (the snapshot)
  d_idx,            \* _dispatch: position of the for loop in `callbacks`
  stop_pc,          \* position of the control thread inside stop()
  next_id,          \* number of events published so far
  n_calls,          \* number of publish, subscribe, unsubscribe and stop calls so far
  delivered,        \* history: the callback invocations, in order
  dispatched,       \* history: ids of the events handed to _dispatch
  snap_of,          \* history: id -> the snapshot _dispatch took for it
  pub_at_stop,      \* history: next_id when stop() was last called
  pub_at_start,     \* history: next_id when start() last spawned a dispatcher
  ever_stopped,     \* history: stop() has been called on the running bus
  last_unsub        \* history: the last unsubscribe() that removed a callback

busVars == <<subscribers, bus_queue, bus_running, dispatch_thread, d_pc, d_event,
             d_callbacks, d_idx, stop_pc, next_id, n_calls, delivered,
             dispatched, snap_of, pub_at_stop, pub_at_start, ever_stopped, last_unsub>>

VARIABLES
  vad_state,        \* VAD.state
  background_rms,   \* VAD.background_rms
  speech_buffer,    \* VAD._speech_buffer: the number of chunks it holds
  silence_frames,   \* VAD._silence_frames
  speech_frames,    \* VAD._speech_frames
  vad_ret,          \* the value the last VAD call returned: (state, segment)
  vad_energy,       \* RMS energy of the chunk given to the last process_chunk
  vad_op,           \* the VAD method called last
  chunks_heard      \* history: the chunks given to process_chunk so far, counted
                    \* up to MaxHeard

vadVars == <<vad_state, background_rms, speech_buffer, silence_frames, speech_frames,
             vad_ret, vad_energy, vad_op, chunks_heard>>

VARIABLES
  templates,        \* per matcher: TemplateMatcher.templates, command -> list of features
  template_keys,    \* per matcher: the commands of `templates` in insertion order
  noise_templates,  \* per matcher: TemplateMatcher.noise_templates
  n_adds,           \* number of add_template / add_noise_template calls so far
  match_in,         \* the matcher and the features given to the last recognize
  match_ret,        \* the value the last recognize returned
  match_op          \* the matcher method called last

matchVars == <<templates, template_keys, noise_templates, n_adds, match_in, match_ret,
               match_op>>

VARIABLES
  now,                     \* time.time(), in clock ticks
  a_running,               \* ECGAdapter._running
  a_thread,                \* ECGAdapter._thread: "none" or "thread"
  use_fallback,            \* ECGAdapter.use_fallback
  hardware_available,      \* ECGAdapter.hardware_available
  ser,                     \* ECGAdapter.ser: "none" or "open"
  last_retry_time,         \* ECGAdapter.last_retry_time
  last_peak_time,          \* ECGAdapter.last_peak_time
  last_fallback_peak_time, \* ECGAdapter.last_fallback_peak_time
  a_last_peak_dir,         \* ECGAdapter._last_peak_dir
  sig_mwi_buf,             \* ECGAdapter.sig_mwi_buf
  sig_ma1_buf,             \* ECGAdapter.sig_ma1_buf
  a_sample_counter,        \* ECGAdapter.sample_counter
  last_peak_abs_idx,       \* ECGAdapter.last_peak_abs_idx
  peak_indices_history,    \* ECGAdapter.peak_indices_history
  a_rr_history,            \* ECGAdapter.rr_history, in samples
  threshold_mwi_x10,       \* ECGAdapter.threshold_mwi, in tenths
  a_signal_mean_x100,      \* ECGAdapter.signal_mean, in hundredths
  a_published,             \* the events the last loop iteration published
  a_op,                    \* the adapter step taken last
  init_result,             \* history: outcome of the last _init_ecg_hardware
  last_attempt_time        \* history: time of the last _init_ecg_hardware

detVars == <<sig_mwi_buf, sig_ma1_buf, a_sample_counter, last_peak_abs_idx,
             peak_indices_history, a_rr_history, threshold_mwi_x10, a_signal_mean_x100>>

adapterVars == <<now, a_running, a_thread, use_fallback, hardware_available, ser,
                 last_retry_time, last_peak_time, last_fallback_peak_time,
                 a_last_peak_dir, detVars, a_published, a_op, init_result,
                 last_attempt_time>>

VARIABLES
  mwi_history,             \* ECGManager.mwi_history
  sig_history,             \* ECGManager.sig_history
  m_sample_counter,        \* ECGManager.sample_counter
  last_peak_counter,       \* ECGManager.last_peak_counter
  peak_history,            \* ECGManager.peak_history
  m_rr_history,            \* ECGManager.rr_history, in samples
  m_threshold_x10,         \* ECGManager.threshold, in tenths
  m_signal_mean_x100,      \* ECGManager.signal_mean, in hundredths
  m_bpm,                   \* ECGManager.bpm, as <<numerator, denominator>>
  m_last_peak_dir,         \* ECGManager._last_peak_dir
  m_published              \* the events published for the last sample

mgrVars == <<mwi_history, sig_history, m_sample_counter, last_peak_counter,
             peak_history, m_rr_history, m_threshold_x10, m_signal_mean_x100, m_bpm,
             m_last_peak_dir, m_published>>

VARIABLES
  vc_running,          \* VoiceController._running
  vc_vad,              \* VoiceController._vad: NoVad, or the fields of the VAD
  calibration_target,  \* VoiceController._calibration_target
  freedom_mode,        \* VoiceController.freedom_mode
  command_queue,       \* VoiceController._command_queue
  vc_published,        \* the events the last controller operation published
  vc_turn,             \* the last operation when it was a turn of
                       \* _recognition_loop: whether the VAD emitted a segment, what recognize did with it, whether
                       \* the turn ended in the exception handler, the action
                       \* put on the queue
  vc_polled,           \* what the last operation returned when it was listen_and_analyze
  calibration_expired, \* a target is set and more than 10 s have passed since
                       \* _calibration_start_time
  cal_templates,       \* per matcher, the templates held for the calibration command
  vc_op                \* the controller operation that ran last

voiceVars == <<vc_running, vc_vad, calibration_target, freedom_mode, command_queue,
               vc_published, vc_turn, vc_polled, calibration_expired, cal_templates,
               vc_op>>

VARIABLES
  cls_instance,     \* EventBus._instance: 0 for None, else the number of the object
  n_objects,        \* the number of EventBus objects created so far
  sg_initialized,   \* _instance._initialized
  sg_subscribers,   \* _instance._subscribers, for one event type
  sg_queue,         \* _instance._queue: the number of events in it
  c_pc,             \* per thread: where its EventBus() call stands
  c_obj,            \* per thread: the object __new__ gave its current call
  c_ret,            \* per thread: the object its last finished EventBus() returned
  n_constructs,     \* the number of EventBus() calls begun
  n_uses,           \* the number of subscribe / publish calls made
  sg_discarded      \* history: __init__ replaced a map or queue that held something

singletonVars == <<cls_instance, n_objects, sg_initialized, sg_subscribers, sg_queue,
                   c_pc, c_obj, c_ret, n_constructs, n_uses, sg_discarded>>

VARIABLES
  rb_buffer,        \* RingBuffer._buffer
  rb_lock,          \* RingBuffer._lock: "free", or "writer" during an append
  rb_pending,       \* append: the samples of the chunk not yet put in the deque
  rb_read,          \* the last read call and the samples it returned
  rb_log,           \* history: the samples appended since the last clear
  n_chunks          \* the number of chunks given to append so far

ringVars == <<rb_buffer, rb_lock, rb_pending, rb_read, rb_log, n_chunks>>

\* MultiMethodMatcher (audio/recognizers.py): the ensemble over the
\* per-method matchers
VARIABLES
  ens_methods,  \* the `methods` the matcher was built with, in order
  ens_in,       \* per-method results and weighting of the call
  ens_ret,      \* the response of the last call
  ens_op        \* which operation ran last

ensembleVars == <<ens_methods, ens_in, ens_ret, ens_op>>

\* The controller's VAD between the recognition thread (process_chunk, one
\* statement at a time) and the server thread (start_calibration_mode ->
\* VAD.reset, one statement at a time)
VARIABLES
  rv_state,          \* VAD.state
  rv_buffer,         \* VAD._speech_buffer: the number of chunks in it
  rv_silence_frames, \* VAD._silence_frames
  rv_speech_frames,  \* VAD._speech_frames
  t_pc,              \* the line of vad.py the recognition thread is at, "idle"
                     \* before get_chunk, "recognise" while it handles a segment
  t_speech,          \* is_speech of the chunk in process_chunk
  t_seg,             \* the local `segment` of process_chunk (chunks in it)
  t_ret,             \* how the last process_chunk ended, and the state it returned
  x_pc,              \* the line of VAD.reset the server thread is at, or "idle"
  n_resets,          \* calls of start_calibration_mode so far
  n_race_chunks      \* chunks taken from the stream so far

raceVars == <<rv_state, rv_buffer, rv_silence_frames, rv_speech_frames, t_pc, t_speech,
              t_seg, t_ret, x_pc, n_resets, n_race_chunks>>

\* The serial byte stream and its parsers: ECGManager._read_samples and the
\* read at the head of ECGAdapter._process_real_ecg
VARIABLES
  stream,           \* the bytes the device sends, one character each
  sp_pos,           \* how many of them the reads have consumed
  sp_reader,        \* which component reads the port: "manager", "adapter", "none" yet
  m_serial_buffer,  \* ECGManager._serial_buffer
  sp_fed            \* the samples handed to the filter chain so far, in order

serialVars == <<stream, sp_pos, sp_reader, m_serial_buffer, sp_fed>>

\* EventBus.reset_instance (event_bus.py) against the class lock
VARIABLES
  rs_lock,         \* EventBus._lock, a threading.Lock: "free" or its holder
  rs_instance,     \* EventBus._instance: 0 for None, else the number of the object
  rs_objects,      \* the number of EventBus objects created so far
  rs_running,      \* _instance._running
  rs_thread,       \* the dispatcher thread of the instance is alive
  rs_subscribers,  \* the number of subscriptions of the instance
  rs_queue,        \* the number of events in _instance._queue
  rs_pc,           \* where the reset_instance call stands
  rs_calls         \* the number of reset_instance calls begun

resetVars == <<rs_lock, rs_instance, rs_objects, rs_running, rs_thread, rs_subscribers,
               rs_queue, rs_pc, rs_calls>>

\* The calibration target between the recognition thread (the calibration
\* block of _recognition_loop, one statement at a time) and the server
\* thread (start_calibration_mode, stop_calibration_mode, one statement at a
\* time)
VARIABLES
  cm_freedom,    \* VoiceController.freedom_mode
  cm_target,     \* VoiceController._calibration_target
  cm_expired,    \* more than 10 s have passed since _calibration_start_time
  cm_templates,  \* templates of the first matcher: command -> number of templates
  cm_pc,         \* the line of controller.py the recognition thread is at, or "idle"
  cm_cmd,        \* the local `cmd` of the recognition thread
  cm_cal,        \* what the segment in hand does to _validate_audio and add_template
  cm_xpc,        \* the line of controller.py the server thread is at, or "idle"
  cm_events,     \* history: the events of the calibration block, as published
  cm_cleared,    \* history: the commands _clear_command_templates was called with
  cm_added,      \* history: the commands add_template was called with
  cm_given,      \* history: the commands start_calibration_mode was called with
  cm_stops,      \* history: calls of stop_calibration_mode so far
  cm_segments,   \* segments recognised so far
  cm_calls       \* calls of the server thread so far

calibVars == <<cm_freedom, cm_target, cm_expired, cm_templates, cm_pc, cm_cmd, cm_cal,
               cm_xpc, cm_events, cm_cleared, cm_added, cm_given, cm_stops,
               cm_segments, cm_calls>>

\* The template stores of the matchers of one MultiMethodMatcher
VARIABLES
  st_matchers,   \* per method: templates (command -> number of feature arrays),
                 \* template_names (command -> names) and noise_templates (number)
  st_raised,     \* history: some call ended in an exception of feature extraction
  st_op,         \* which operation ran last
  st_calls       \* calls so far

storeVars == <<st_matchers, st_raised, st_op, st_calls>>

vars == <<busVars, vadVars, matchVars, adapterVars, mgrVars, voiceVars, singletonVars,
           ringVars, ensembleVars, raceVars, serialVars, resetVars, calibVars,
           storeVars>>

notBus == <<vadVars, matchVars, adapterVars, mgrVars, voiceVars, singletonVars,
             ringVars, ensembleVars, raceVars, serialVars, resetVars, calibVars,
             storeVars>>
notVad == <<busVars, matchVars, adapterVars, mgrVars, voiceVars, singletonVars,
             ringVars, ensembleVars, raceVars, serialVars, resetVars, calibVars,
             storeVars>>
notMatch == <<busVars, vadVars, adapterVars, mgrVars, voiceVars, singletonVars,
               ringVars, ensembleVars, raceVars, serialVars, resetVars, calibVars,
               storeVars>>
notAdapter == <<busVars, vadVars, matchVars, mgrVars, voiceVars, singletonVars,
                 ringVars, ensembleVars, raceVars, serialVars, resetVars, calibVars,
                 storeVars>>
notMgr == <<busVars, vadVars, matchVars, adapterVars, voiceVars, singletonVars,
             ringVars, ensembleVars, raceVars, serialVars, resetVars, calibVars,
             storeVars>>
notVoice == <<busVars, vadVars, matchVars, adapterVars, mgrVars, singletonVars,
               ringVars, ensembleVars, raceVars, serialVars, resetVars, calibVars,
               storeVars>>
notSingleton == <<busVars, vadVars, matchVars, adapterVars, mgrVars, voiceVars,
                   ringVars, ensembleVars, raceVars, serialVars, resetVars, calibVars,
                   storeVars>>
notRing == <<busVars, vadVars, matchVars, adapterVars, mgrVars, voiceVars,
              singletonVars, ensembleVars, raceVars, serialVars, resetVars, calibVars,
              storeVars>>
notEnsemble == <<busVars, vadVars, matchVars, adapterVars, mgrVars, voiceVars,
                  singletonVars, ringVars, raceVars, serialVars, resetVars, calibVars,
                  storeVars>>
notRace == <<busVars, vadVars, matchVars, adapterVars, mgrVars, voiceVars,
              singletonVars, ringVars, ensembleVars, serialVars, resetVars, calibVars,
              storeVars>>
notSerial == <<busVars, vadVars, matchVars, adapterVars, mgrVars, voiceVars,
                singletonVars, ringVars, ensembleVars, raceVars, resetVars, calibVars,
                storeVars>>
notReset == <<busVars, vadVars, matchVars, adapterVars, mgrVars, voiceVars,
               singletonVars, ringVars, ensembleVars, raceVars, serialVars, calibVars,
               storeVars>>
notCalib == <<busVars, vadVars, matchVars, adapterVars, mgrVars, voiceVars,
               singletonVars, ringVars, ensembleVars, raceVars, serialVars, resetVars,
               storeVars>>
notStore == <<busVars, vadVars, matchVars, adapterVars, mgrVars, voiceVars,
               singletonVars, ringVars, ensembleVars, raceVars, serialVars, resetVars,
               calibVars>>

\* EventBus.__init__
BusInit ==
  /\ subscribers = [t \in EventType |-> <<>>]
  /\ bus_queue = <<>>
  /\ bus_running = FALSE
  /\ dispatch_thread = "none"
  /\ d_pc = "none"
  /\ d_event = NoEvent
  /\ d_callbacks = <<>>
  /\ d_idx = 0
  /\ stop_pc = "idle"
  /\ next_id = 0
  /\ n_calls = 0
  /\ delivered = <<>>
  /\ dispatched = {}
  /\ snap_of = [i \in 1..(MaxCalls + 1) |-> <<>>]
  /\ pub_at_stop = 0
  /\ pub_at_start = 0
  /\ ever_stopped = FALSE
  /\ last_unsub = NoUnsub

\* list.remove(x): drops the first occurrence of x
RECURSIVE RemoveFirst(_, _)
RemoveFirst(s, x) ==
  IF s = <<>> THEN <<>>
  ELSE IF Head(s) = x THEN Tail(s)
  ELSE <<Head(s)>> \o RemoveFirst(Tail(s), x)

\* the number of times x occurs in the list s
Occurrences(s, x) == Cardinality({i \in 1..Len(s) : s[i] = x})

\* a faulty queue.Queue.put: a LIFO put
QueuePutFront(q, e) == <<e>> \o q

\* queue.Queue.put
QueuePut(q, e) == Append(q, e)

\* a faulty queue.Queue.get: the item taken stays in the queue
QueueRestKeep(q) == q

\* the queue after queue.Queue.get took its head
QueueRest(q) == Tail(q)

\* EventBus.subscribe
Subscribe(t, cb) ==
  /\ n_calls < MaxCalls
  /\ n_calls' = n_calls + 1
  /\ subscribers' = [subscribers EXCEPT ![t] = Append(@, cb)]
  /\ last_unsub' = IF last_unsub.type = t /\ last_unsub.cb = cb THEN NoUnsub
                   ELSE last_unsub
  /\ UNCHANGED <<bus_queue, bus_running, dispatch_thread, d_pc, d_event, d_callbacks,
                 d_idx, stop_pc, next_id, delivered, dispatched, snap_of, pub_at_stop,
                 ever_stopped, pub_at_start>>
  /\ UNCHANGED notBus

\* EventBus.unsubscribe: removes the first occurrence of the callback; for a
\* callback that is not in the list (ValueError, ignored) nothing changes
Unsubscribe(t, cb) ==
  /\ n_calls < MaxCalls
  /\ \E i \in 1..Len(subscribers[t]) : subscribers[t][i] = cb
  /\ n_calls' = n_calls + 1
  /\ subscribers' = [subscribers EXCEPT ![t] = RemoveFirst(@, cb)]
  /\ last_unsub' = [type |-> t, cb |-> cb, at |-> next_id,
                    left |-> Occurrences(RemoveFirst(subscribers[t], cb), cb)]
  /\ UNCHANGED <<bus_queue, bus_running, dispatch_thread, d_pc, d_event, d_callbacks,
                 d_idx, stop_pc, next_id, delivered, dispatched, snap_of, pub_at_stop,
                 ever_stopped, pub_at_start>>
  /\ UNCHANGED notBus

\* EventBus.publish, called by any thread
Publish(t) ==
  /\ n_calls < MaxCalls
  /\ n_calls' = n_calls + 1
  /\ next_id' = next_id + 1
  /\ bus_queue' = QueuePut(bus_queue, [type |-> t, id |-> next_id + 1])
  /\ UNCHANGED <<subscribers, bus_running, dispatch_thread, d_pc, d_event, d_callbacks,
                 d_idx, stop_pc, delivered, dispatched, snap_of, pub_at_stop,
                 ever_stopped, last_unsub, pub_at_start>>
  /\ UNCHANGED notBus

\* EventBus.start: returns at once on a running bus, else spawns the dispatcher
Start ==
  /\ stop_pc = "idle"
  /\ ~bus_running
  /\ bus_running' = TRUE
  /\ dispatch_thread' = "thread"
  /\ d_pc' = "loop"
  /\ d_event' = NoEvent
  /\ d_callbacks' = <<>>
  /\ d_idx' = 0
  /\ pub_at_start' = next_id
  /\ UNCHANGED <<subscribers, bus_queue, stop_pc, next_id, n_calls, delivered,
                 dispatched, snap_of, pub_at_stop, ever_stopped, last_unsub>>
  /\ UNCHANGED notBus

\* EventBus.stop, first statement: self._running = False
StopFlag ==
  /\ stop_pc = "idle"
  /\ bus_running
  /\ n_calls < MaxCalls
  /\ bus_running' = FALSE
  /\ stop_pc' = "put"
  /\ n_calls' = n_calls + 1
  /\ pub_at_stop' = next_id
  /\ ever_stopped' = TRUE
  /\ UNCHANGED <<subscribers, bus_queue, dispatch_thread, d_pc, d_event, d_callbacks,
                 d_idx, next_id, delivered, dispatched, snap_of, last_unsub, pub_at_start>>
  /\ UNCHANGED notBus

\* EventBus.stop: self._queue.put(Event(SYSTEM_SHUTDOWN))
StopPut ==
  /\ stop_pc = "put"
  /\ bus_queue' = QueuePut(bus_queue, [type |-> SYSTEM_SHUTDOWN, id |-> 0])
  /\ stop_pc' = "join"
  /\ UNCHANGED <<subscribers, bus_running, dispatch_thread, d_pc, d_event, d_callbacks,
                 d_idx, next_id, n_calls, delivered, dispatched, snap_of, pub_at_stop,
                 ever_stopped, last_unsub, pub_at_start>>
  /\ UNCHANGED notBus

\* EventBus.stop: join the dispatcher, then forget it.  The dispatcher leaves
\* its loop within one queue timeout (0.1 s) once _running is false, so the
\* join (timeout 2.0 s) returns when the thread has exited.
StopJoin ==
  /\ stop_pc = "join"
  /\ d_pc = "exited"
  /\ dispatch_thread' = "none"
  /\ stop_pc' = "idle"
  /\ UNCHANGED <<subscribers, bus_queue, bus_running, d_pc, d_event, d_callbacks,
                 d_idx, next_id, n_calls, delivered, dispatched, snap_of, pub_at_stop,
                 ever_stopped, last_unsub, pub_at_start>>
  /\ UNCHANGED notBus

\* _dispatch_loop: the test of `while self._running`
DispatchLoopTest ==
  /\ d_pc = "loop"
  /\ d_pc' = IF bus_running THEN "get" ELSE "exited"
  /\ UNCHANGED <<subscribers, bus_queue, bus_running, dispatch_thread, d_event,
                 d_callbacks, d_idx, stop_pc, next_id, n_calls, delivered, dispatched,
                 snap_of, pub_at_stop, ever_stopped, last_unsub, pub_at_start>>
  /\ UNCHANGED notBus

\* _dispatch_loop: event = self._queue.get(timeout=0.1); queue.Empty -> continue
DispatchGet ==
  /\ d_pc = "get"
  /\ IF bus_queue = <<>>
       THEN /\ d_pc' = "loop"
            /\ UNCHANGED <<bus_queue, d_event>>
       ELSE /\ d_event' = Head(bus_queue)
            /\ bus_queue' = QueueRest(bus_queue)
            /\ d_pc' = "dispatch"
  /\ UNCHANGED <<subscribers, bus_running, dispatch_thread, d_callbacks, d_idx,
                 stop_pc, next_id, n_calls, delivered, dispatched, snap_of,
                 pub_at_stop, ever_stopped, last_unsub, pub_at_start>>
  /\ UNCHANGED notBus

\* _dispatch: callbacks = self._subscribers.get(event.type, []).copy(), under the lock
DispatchSnapshot ==
  /\ d_pc = "dispatch"
  /\ d_callbacks' = subscribers[d_event.type]
  /\ d_idx' = 1
  /\ d_pc' = "call"
  /\ dispatched' = dispatched \cup {d_event.id}
  /\ snap_of' = IF d_event.id > 0
                  THEN [snap_of EXCEPT ![d_event.id] = subscribers[d_event.type]]
                  ELSE snap_of
  /\ UNCHANGED <<subscribers, bus_queue, bus_running, dispatch_thread, d_event,
                 stop_pc, next_id, n_calls, delivered, pub_at_stop, ever_stopped,
                 last_unsub, pub_at_start>>
  /\ UNCHANGED notBus

\* a faulty _dispatch without the try around the call: the exception of a
\* raising callback ends the dispatcher thread
AfterCallbackUncaught(cb, idx) ==
  IF cb \in RaisingCallbacks
    THEN [pc |-> "exited", idx |-> idx]
    ELSE [pc |-> "call", idx |-> idx + 1]

\* _dispatch, after callback(event) returned or raised: `except Exception`
\* around the call prints the error and the for loop goes on
AfterCallback(cb, idx) == [pc |-> "call", idx |-> idx + 1]

\* _dispatch: one turn of `for callback in callbacks: callback(event)`
DispatchCall ==
  /\ d_pc = "call"
  /\ d_idx <= Len(d_callbacks)
  /\ delivered' = Append(delivered,
                         [cb |-> d_callbacks[d_idx], id |-> d_event.id,
                          type |-> d_event.type, slot |-> d_idx])
  /\ d_idx' = AfterCallback(d_callbacks[d_idx], d_idx).idx
  /\ d_pc' = AfterCallback(d_callbacks[d_idx], d_idx).pc
  /\ UNCHANGED <<subscribers, bus_queue, bus_running, dispatch_thread, d_event,
                 d_callbacks, stop_pc, next_id, n_calls, dispatched, snap_of,
                 pub_at_stop, ever_stopped, last_unsub, pub_at_start>>
  /\ UNCHANGED notBus

\* _dispatch returns: `break` after SYSTEM_SHUTDOWN, else back to the loop test
\* (the locals of the finished turn are dead)
DispatchReturn ==
  /\ d_pc = "call"
  /\ d_idx > Len(d_callbacks)
  /\ d_pc' = IF d_event.type = SYSTEM_SHUTDOWN THEN "exited" ELSE "loop"
  /\ d_event' = NoEvent
  /\ d_callbacks' = <<>>
  /\ d_idx' = 0
  /\ UNCHANGED <<subscribers, bus_queue, bus_running, dispatch_thread, stop_pc,
                 next_id, n_calls, delivered, dispatched, snap_of, pub_at_stop,
                 ever_stopped, last_unsub, pub_at_start>>
  /\ UNCHANGED notBus

DispatcherStep ==
  DispatchLoopTest \/ DispatchGet \/ DispatchSnapshot \/ DispatchCall \/ DispatchReturn

NextBus ==
  \/ \E t \in PubTypes, cb \in Callbacks : Subscribe(t, cb)
  \/ \E t \in PubTypes, cb \in Callbacks : Unsubscribe(t, cb)
  \/ \E t \in PubTypes : Publish(t)
  \/ Start
  \/ StopFlag
  \/ StopPut
  \/ StopJoin
  \/ DispatchLoopTest
  \/ DispatchGet
  \/ DispatchSnapshot
  \/ DispatchCall
  \/ DispatchReturn


\* ------------------------------------------------------------------------
\* Voice activity detector (src/src/vad.py, src/src/config.py)
\* ------------------------------------------------------------------------
SAMPLE_RATE == 16000
CHUNK_SIZE == 256
VAD_MIN_SPEECH_MS == 120
VAD_MAX_SPEECH_MS == 1500
VAD_SILENCE_MS == 80
\* VAD_ENERGY_THRESHOLD_MULT_LOW = 1.6 and _HIGH = 3.5, in tenths
VAD_ENERGY_THRESHOLD_MULT_LOW_X10 == 16
VAD_ENERGY_THRESHOLD_MULT_HIGH_X10 == 35
\* VAD.__init__: background_rms = 100.0; set_background: the floor 50.0
DEFAULT_BACKGROUND_RMS == 100
BACKGROUND_RMS_FLOOR == 50

SILENCE == "SILENCE"
RECORDING == "RECORDING"
PROCESSING == "PROCESSING"
\* a returned segment of None
NoSegment == -1
\* config.VAD_PRE_ROLL_MS
VAD_PRE_ROLL_MS == 50
\* the chunks before a recording that the model counts
MaxHeard == 4

\* int(ms * SAMPLE_RATE / 1000 / CHUNK_SIZE): the quotient, truncated
FrameCount(ms) == (ms * SAMPLE_RATE) \div (1000 * CHUNK_SIZE)
min_speech_frames == FrameCount(VAD_MIN_SPEECH_MS)
max_speech_frames == FrameCount(VAD_MAX_SPEECH_MS)
silence_frames_threshold == FrameCount(VAD_SILENCE_MS)

\* RMS energies of the chunks fed to the VAD and background levels measured
ChunkEnergies == {0, 255, 256, 2000}
BackgroundLevels == {20, 100}

\* VAD._get_threshold, times 20: (rms * 1.6 + rms * 3.5) / 2
GetThresholdX20(rms) ==
  rms * VAD_ENERGY_THRESHOLD_MULT_LOW_X10 + rms * VAD_ENERGY_THRESHOLD_MULT_HIGH_X10

\* process_chunk: is_speech = energy > threshold
IsSpeech(energy, rms) == 20 * energy > GetThresholdX20(rms)

\* process_chunk as a bug would have it: PROCESSING falls back to SILENCE by itself
ProcessChunkAutoReset(st, buf, sil, sp, is_speech) ==
  IF st = SILENCE /\ is_speech
    THEN [state |-> RECORDING, buf |-> 1, sil |-> 0, sp |-> 1, seg |-> NoSegment]
  ELSE IF st = RECORDING
    THEN LET sil2 == IF is_speech THEN 0 ELSE sil + 1 IN
         IF sil2 >= silence_frames_threshold \/ sp + 1 >= max_speech_frames
           THEN IF sp + 1 >= min_speech_frames
                  THEN [state |-> PROCESSING, buf |-> 0, sil |-> sil2, sp |-> sp + 1,
                        seg |-> (buf + 1) * CHUNK_SIZE]
                  ELSE [state |-> SILENCE, buf |-> 0, sil |-> sil2, sp |-> sp + 1,
                        seg |-> NoSegment]
           ELSE [state |-> RECORDING, buf |-> buf + 1, sil |-> sil2, sp |-> sp + 1,
                 seg |-> NoSegment]
  ELSE [state |-> SILENCE, buf |-> buf, sil |-> sil, sp |-> sp, seg |-> NoSegment]

\* a faulty end test: the recording ends one quiet chunk late
EndOfSpeechLate(sil, sp) ==
  sil > silence_frames_threshold \/ sp >= max_speech_frames

\* process_chunk, RECORDING: the test for the end of speech or the maximum length
EndOfSpeech(sil, sp) ==
  sil >= silence_frames_threshold \/ sp >= max_speech_frames

\* a faulty minimum test: a recording of exactly the minimum length is dropped
LongEnoughStrict(sp) == sp > min_speech_frames

\* process_chunk, RECORDING: the test of the minimum length
LongEnough(sp) == sp >= min_speech_frames

\* VAD.process_chunk: the fields after the call and the segment returned
\* (its length in samples, or NoSegment)
ProcessChunkResult(st, buf, sil, sp, is_speech) ==
  IF st = SILENCE
    THEN IF is_speech
           THEN [state |-> RECORDING, buf |-> 1, sil |-> 0, sp |-> 1, seg |-> NoSegment]
           ELSE [state |-> SILENCE, buf |-> buf, sil |-> sil, sp |-> sp,
                 seg |-> NoSegment]
  ELSE IF st = RECORDING
    THEN LET buf2 == buf + 1
             sp2 == sp + 1
             sil2 == IF is_speech THEN 0 ELSE sil + 1
         IN
         IF EndOfSpeech(sil2, sp2)
           THEN IF LongEnough(sp2)
                  THEN [state |-> PROCESSING, buf |-> 0, sil |-> sil2, sp |-> sp2,
                        seg |-> buf2 * CHUNK_SIZE]
                  ELSE [state |-> SILENCE, buf |-> 0, sil |-> sil2, sp |-> sp2,
                        seg |-> NoSegment]
           ELSE [state |-> RECORDING, buf |-> buf2, sil |-> sil2, sp |-> sp2,
                 seg |-> NoSegment]
  ELSE [state |-> st, buf |-> buf, sil |-> sil, sp |-> sp, seg |-> NoSegment]

\* VAD.__init__
VadInit ==
  /\ vad_state = SILENCE
  /\ background_rms = DEFAULT_BACKGROUND_RMS
  /\ speech_buffer = 0
  /\ silence_frames = 0
  /\ speech_frames = 0
  /\ vad_ret = [state |-> SILENCE, segment |-> NoSegment]
  /\ vad_energy = 0
  /\ vad_op = "init"
  /\ chunks_heard = 0

\* VAD.process_chunk on a chunk of CHUNK_SIZE samples with the given RMS energy
ProcessChunk(energy) ==
  LET r == ProcessChunkResult(vad_state, speech_buffer, silence_frames, speech_frames,
                              IsSpeech(energy, background_rms))
  IN /\ vad_state' = r.state
     /\ speech_buffer' = r.buf
     /\ silence_frames' = r.sil
     /\ speech_frames' = r.sp
     /\ vad_ret' = [state |-> r.state, segment |-> r.seg]
     /\ vad_energy' = energy
     /\ vad_op' = "process_chunk"
     /\ chunks_heard' = IF chunks_heard < MaxHeard THEN chunks_heard + 1 ELSE chunks_heard
     /\ UNCHANGED background_rms
     /\ UNCHANGED notVad

\* a faulty reset: the frame counters are kept
VadResetKeepsCounters ==
  /\ vad_state' = SILENCE
  /\ speech_buffer' = 0
  /\ vad_op' = "reset"
  /\ UNCHANGED <<background_rms, vad_ret, vad_energy, silence_frames, speech_frames,
                 chunks_heard>>
  /\ UNCHANGED notVad

\* VAD.reset
VadReset ==
  /\ vad_state' = SILENCE
  /\ speech_buffer' = 0
  /\ silence_frames' = 0
  /\ speech_frames' = 0
  /\ vad_op' = "reset"
  /\ UNCHANGED <<background_rms, vad_ret, vad_energy, chunks_heard>>
  /\ UNCHANGED notVad

\* VAD.set_background
SetBackground(rms) ==
  /\ background_rms' = IF rms > BACKGROUND_RMS_FLOOR THEN rms ELSE BACKGROUND_RMS_FLOOR
  /\ vad_op' = "set_background"
  /\ UNCHANGED <<vad_state, speech_buffer, silence_frames, speech_frames, vad_ret,
                 vad_energy, chunks_heard>>
  /\ UNCHANGED notVad

NextVAD ==
  \/ \E energy \in ChunkEnergies : ProcessChunk(energy)
  \/ VadReset
  \/ \E rms \in BackgroundLevels : SetBackground(rms)

\* ------------------------------------------------------------------------
\* Voice activity detector: properties
\* ------------------------------------------------------------------------
\* the length of a segment of n samples lies within [lo, hi] milliseconds
DurationWithin(n, lo, hi) ==
  /\ lo * SAMPLE_RATE <= n * 1000
  /\ n * 1000 <= hi * SAMPLE_RATE

\* C4: process_chunk moves the state only SILENCE->RECORDING (on a chunk above
\* the threshold), RECORDING->PROCESSING (with a segment) or RECORDING->SILENCE
\* (without); in PROCESSING it returns (PROCESSING, None) and changes nothing;
\* a segment is returned exactly on the call that enters PROCESSING.
C4_VadTransitions ==
  [][ vad_op' = "process_chunk" =>
        /\ vad_ret'.state = vad_state'
        /\ vad_state' # vad_state =>
             \/ /\ vad_state = SILENCE /\ vad_state' = RECORDING
                /\ 20 * vad_energy' > 51 * background_rms
                /\ vad_ret'.segment = NoSegment
             \/ /\ vad_state = RECORDING /\ vad_state' = PROCESSING
                /\ vad_ret'.segment # NoSegment
             \/ /\ vad_state = RECORDING /\ vad_state' = SILENCE
                /\ vad_ret'.segment = NoSegment
                /\ speech_buffer' = 0
        /\ vad_state = PROCESSING =>
             /\ vad_ret' = [state |-> PROCESSING, segment |-> NoSegment]
             /\ UNCHANGED <<vad_state, background_rms, speech_buffer, silence_frames,
                            speech_frames>>
        /\ vad_ret'.segment # NoSegment <=>
             (vad_state # PROCESSING /\ vad_state' = PROCESSING)
    ]_vars

\* C4 witness: a process_chunk call has entered PROCESSING and returned a segment
C4_Witness ==
  /\ vad_op = "process_chunk"
  /\ vad_state = PROCESSING
  /\ vad_ret.segment # NoSegment

\* C16: on a chunk processed while RECORDING, a chunk above the threshold
\* sets the count of consecutive quiet chunks to zero and a chunk below it
\* adds one to it; the recording ends on this chunk exactly when that count
\* reaches silence_frames_threshold or the chunks accumulated, this one
\* included, reach max_speech_frames.
C16_RecordingEnd ==
  [][ (vad_op' = "process_chunk" /\ vad_state = RECORDING) =>
        /\ silence_frames' = IF IsSpeech(vad_energy', background_rms)
                               THEN 0 ELSE silence_frames + 1
        /\ speech_frames' = speech_buffer + 1
        /\ vad_state' # RECORDING <=>
             \/ silence_frames' = silence_frames_threshold
             \/ speech_buffer + 1 = max_speech_frames
        /\ vad_state' = RECORDING => speech_buffer' = speech_buffer + 1
    ]_vars

\* C16 witness: a recording ended by its length, not by silence
C16_Witness ==
  /\ vad_op = "process_chunk"
  /\ vad_ret.segment = max_speech_frames * CHUNK_SIZE
  /\ silence_frames < silence_frames_threshold

\* a recording ended by silence after a quiet chunk was followed by a loud one
RecordingEndedBySilence ==
  /\ vad_op = "process_chunk"
  /\ vad_ret.segment # NoSegment
  /\ silence_frames = silence_frames_threshold
  /\ speech_frames > min_speech_frames
  /\ speech_frames < max_speech_frames

\* C17: when a recording ends with one chunk fewer than min_speech_frames it
\* is discarded (SILENCE, empty buffer, no segment); when it ends with exactly
\* min_speech_frames chunks it is returned as a segment.
C17_MinLengthBoundary ==
  [][ (vad_op' = "process_chunk" /\ vad_state = RECORDING /\ vad_state' # RECORDING) =>
        /\ speech_buffer + 1 = min_speech_frames - 1 =>
             /\ vad_state' = SILENCE
             /\ speech_buffer' = 0
             /\ vad_ret' = [state |-> SILENCE, segment |-> NoSegment]
        /\ speech_buffer + 1 = min_speech_frames =>
             /\ vad_state' = PROCESSING
             /\ speech_buffer' = 0
             /\ vad_ret' = [state |-> PROCESSING,
                            segment |-> min_speech_frames * CHUNK_SIZE]
    ]_vars

\* C17 witness: a recording of exactly min_speech_frames chunks was returned
C17_Witness ==
  /\ vad_op = "process_chunk"
  /\ vad_state = PROCESSING
  /\ vad_ret.segment = min_speech_frames * CHUNK_SIZE

\* a recording of min_speech_frames - 1 chunks was discarded
ShortRecordingDiscarded ==
  /\ vad_op = "process_chunk"
  /\ vad_state = SILENCE
  /\ speech_buffer = 0
  /\ speech_frames = min_speech_frames - 1
  /\ silence_frames = silence_frames_threshold
  /\ vad_ret.segment = NoSegment

\* the fields of a VAD constructed with the background level rms
FreshVad(rms) ==
  [state |-> SILENCE, background_rms |-> rms, speech_buffer |-> 0,
   silence_frames |-> 0, speech_frames |-> 0]

\* the fields of the VAD
VadFields ==
  [state |-> vad_state, background_rms |-> background_rms,
   speech_buffer |-> speech_buffer, silence_frames |-> silence_frames,
   speech_frames |-> speech_frames]

\* C18: after reset(), from any state, the fields of the VAD are those of a
\* VAD newly constructed with the same background level (SILENCE, empty
\* buffer, counters zero), so it behaves as that one does; a second reset()
\* changes nothing.
C18_ResetIsFresh ==
  [][ vad_op' = "reset" =>
        /\ VadFields' = FreshVad(background_rms)
        /\ vad_op = "reset" => VadFields' = VadFields
    ]_vars

\* C18 witness: reset() was called on a VAD that was recording
C18_Witness ==
  /\ vad_op = "reset"
  /\ vad_ret.state = RECORDING
  /\ vad_state = SILENCE
  /\ speech_frames = 0

\* RingBuffer.get_last_ms(ms): int(SAMPLE_RATE * ms / 1000) samples
PreRollSamples == (SAMPLE_RATE * VAD_PRE_ROLL_MS) \div 1000

\* the samples of the pre-roll when n samples came before the chunk
PreRollOf(n) == IF n >= PreRollSamples THEN PreRollSamples ELSE n

\* C19: on the chunk that takes the VAD from SILENCE to RECORDING, the speech
\* buffer holds the pre-roll (the samples that came before the chunk, at most
\* VAD_PRE_ROLL_MS of them) and then the chunk.
C19_PreRollRetained ==
  [][ (vad_op' = "process_chunk" /\ vad_state = SILENCE /\ vad_state' = RECORDING) =>
        speech_buffer' * CHUNK_SIZE = PreRollOf(chunks_heard * CHUNK_SIZE) + CHUNK_SIZE
    ]_vars

\* a recording that begins after quiet chunks holds the triggering chunk alone
RecordingStartsWithoutPreRoll ==
  /\ vad_op = "process_chunk"
  /\ vad_state = RECORDING
  /\ speech_frames = 1
  /\ speech_buffer = 1
  /\ chunks_heard = MaxHeard

\* every returned segment is the chunks from the triggering chunk on
SegmentIsRecordedChunks ==
  (vad_op = "process_chunk" /\ vad_ret.segment # NoSegment)
    => vad_ret.segment = speech_frames * CHUNK_SIZE

\* C5: every returned segment lasts between VAD_MIN_SPEECH_MS and
\* VAD_MAX_SPEECH_MS, bounds included.
C5_SegmentDuration ==
  vad_ret.segment # NoSegment =>
    DurationWithin(vad_ret.segment, VAD_MIN_SPEECH_MS, VAD_MAX_SPEECH_MS)


\* ------------------------------------------------------------------------
\* Per-method template matchers (src/src/audio/recognizers.py)
\* ------------------------------------------------------------------------
\* the matchers a MultiMethodMatcher builds by default: a TemplateMatcher for
\* 'mfcc_dtw' and a FastLPCMatcher for 'lpc'
Methods == {"mfcc_dtw", "lpc"}
\* MultiMethodMatcher.matchers in insertion order
DefaultMethods == <<"mfcc_dtw", "lpc">>
Commands == {"JUMP", "FLIP"}
\* config.THRESHOLD_MFCC_DTW, and FastLPCMatcher(fixed_frames=30, threshold=100.0)
THRESHOLD_MFCC_DTW == 320
THRESHOLD_FAST_LPC == 100
\* float('inf')
Inf == 1000000

\* One-frame, one-coefficient feature values: between two of them both the
\* length-normalised DTW distance and the Euclidean distance are |a - b|.
FeatVals == {0, 100, 420}

\* TemplateMatcher.__init__ / FastLPCMatcher.__init__: self.threshold
Threshold(m) == IF m = "lpc" THEN THRESHOLD_FAST_LPC ELSE THRESHOLD_MFCC_DTW

\* TemplateMatcher._compute_distance / the Euclidean distance of FastLPCMatcher
ComputeDistance(f1, f2) == IF f1 >= f2 THEN f1 - f2 ELSE f2 - f1

\* `for command, templates in self.templates.items(): for template in templates:`
\* the (command, features) pairs in iteration order
RECURSIVE TemplateList(_, _)
TemplateList(keys, tpl) ==
  IF keys = <<>> THEN <<>>
  ELSE [i \in 1..Len(tpl[Head(keys)]) |-> [command |-> Head(keys), feat |-> tpl[Head(keys)][i]]]
       \o TemplateList(Tail(keys), tpl)

\* the loop over the command templates: keeps the first strictly smallest distance
RECURSIVE BestMatch(_, _, _)
BestMatch(list, features, best) ==
  IF list = <<>> THEN best
  ELSE LET dist == ComputeDistance(features, Head(list).feat) IN
       BestMatch(Tail(list), features,
                 IF dist < best.distance
                   THEN [command |-> Head(list).command, distance |-> dist]
                   ELSE best)

\* the loop over the noise templates
RECURSIVE NoiseDistance(_, _, _)
NoiseDistance(noise, features, best) ==
  IF noise = <<>> THEN best
  ELSE LET dist == ComputeDistance(features, Head(noise)) IN
       NoiseDistance(Tail(noise), features, IF dist < best THEN dist ELSE best)

\* the decision as a bug would have it: NOISE also wins a tie with the best command
DecideNoiseOnTie(best, noise_distance, threshold) ==
  IF noise_distance <= best.distance
    THEN [command |-> "NOISE", distance |-> noise_distance,
          noise_distance |-> noise_distance]
  ELSE IF best.distance > threshold
    THEN [command |-> "NONE", distance |-> best.distance,
          noise_distance |-> noise_distance]
  ELSE [command |-> best.command, distance |-> best.distance,
        noise_distance |-> noise_distance]

\* the decision at the end of recognize
Decide(best, noise_distance, threshold) ==
  IF noise_distance < best.distance
    THEN [command |-> "NOISE", distance |-> noise_distance,
          noise_distance |-> noise_distance]
  ELSE IF best.distance > threshold
    THEN [command |-> "NONE", distance |-> best.distance,
          noise_distance |-> noise_distance]
  ELSE [command |-> best.command, distance |-> best.distance,
        noise_distance |-> noise_distance]

\* TemplateMatcher.recognize / FastLPCMatcher.recognize
RecognizeResult(keys, tpl, noise, threshold, features) ==
  IF keys = <<>>
    THEN [command |-> "NONE", distance |-> Inf, noise_distance |-> Inf]
    ELSE Decide(BestMatch(TemplateList(keys, tpl), features,
                          [command |-> "NONE", distance |-> Inf]),
                NoiseDistance(noise, features, Inf),
                threshold)

\* the matchers after construction
MatchInit ==
  /\ templates = [m \in Methods |-> [c \in Commands |-> <<>>]]
  /\ template_keys = [m \in Methods |-> <<>>]
  /\ noise_templates = [m \in Methods |-> <<>>]
  /\ n_adds = 0
  /\ match_in = [method |-> "none", features |-> 0]
  /\ match_ret = [command |-> "NONE", distance |-> Inf, noise_distance |-> Inf]
  /\ match_op = "init"

\* is command c a key of the dict whose keys are `keys`
HasKey(keys, c) == \E i \in 1..Len(keys) : keys[i] = c

\* TemplateMatcher.add_template / FastLPCMatcher.add_template with the
\* features _extract_features gives for the audio
AddTemplate(m, command, features) ==
  /\ n_adds < MaxAdds
  /\ n_adds' = n_adds + 1
  /\ template_keys' = IF HasKey(template_keys[m], command) THEN template_keys
                      ELSE [template_keys EXCEPT ![m] = Append(@, command)]
  /\ templates' = [templates EXCEPT ![m][command] = Append(@, features)]
  /\ match_op' = "add_template"
  /\ UNCHANGED <<noise_templates, match_in, match_ret>>
  /\ UNCHANGED notMatch

\* TemplateMatcher.add_noise_template / FastLPCMatcher.add_noise_template
AddNoiseTemplate(m, features) ==
  /\ n_adds < MaxAdds
  /\ n_adds' = n_adds + 1
  /\ noise_templates' = [noise_templates EXCEPT ![m] = Append(@, features)]
  /\ match_op' = "add_noise_template"
  /\ UNCHANGED <<templates, template_keys, match_in, match_ret>>
  /\ UNCHANGED notMatch

\* TemplateMatcher.recognize / FastLPCMatcher.recognize of one matcher
Recognize(m, features) ==
  /\ match_in' = [method |-> m, features |-> features]
  /\ match_ret' = RecognizeResult(template_keys[m], templates[m], noise_templates[m],
                                  Threshold(m), features)
  /\ match_op' = "recognize"
  /\ UNCHANGED <<templates, template_keys, noise_templates, n_adds>>
  /\ UNCHANGED notMatch

NextMatch ==
  \/ \E m \in Methods, c \in Commands, f \in FeatVals : AddTemplate(m, c, f)
  \/ \E m \in Methods, f \in FeatVals : AddNoiseTemplate(m, f)
  \/ \E m \in Methods, f \in FeatVals : Recognize(m, f)

\* ------------------------------------------------------------------------
\* Per-method template matchers: properties
\* ------------------------------------------------------------------------
\* the distances from features f to the command templates of matcher m
CommandDistances(m, f) ==
  UNION {{ComputeDistance(f, templates[m][c][i]) : i \in 1..Len(templates[m][c])} :
           c \in Commands}

\* the distances from features f to the noise templates of matcher m
NoiseDistances(m, f) ==
  {ComputeDistance(f, noise_templates[m][i]) : i \in 1..Len(noise_templates[m])}

\* the least element of a set of distances, Inf for the empty set
Nearest(S) == IF S = {} THEN Inf ELSE CHOOSE x \in S : \A y \in S : x <= y

\* C6: for a matcher with at least one command template, recognize reports
\* NOISE if the nearest noise template is strictly nearer than the nearest
\* command template; otherwise NONE if the nearest command distance is
\* strictly greater than the method threshold; otherwise the command of a
\* nearest template.
C6_MatcherDecision ==
  (match_op = "recognize" /\ CommandDistances(match_in.method, match_in.features) # {}) =>
    LET m == match_in.method
        best == Nearest(CommandDistances(m, match_in.features))
        noise == Nearest(NoiseDistances(m, match_in.features))
    IN IF noise < best THEN match_ret.command = "NOISE"
       ELSE IF best > Threshold(m) THEN match_ret.command = "NONE"
       ELSE /\ match_ret.command \in Commands
            /\ \E i \in 1..Len(templates[m][match_ret.command]) :
                 ComputeDistance(match_in.features, templates[m][match_ret.command][i])
                   = best

\* C6 witness: a matcher holding command and noise templates recognised a
\* command although a noise template was exactly as near as the best template
C6_Witness ==
  /\ match_op = "recognize"
  /\ match_ret.command \in Commands
  /\ NoiseDistances(match_in.method, match_in.features) # {}
  /\ match_ret.noise_distance = match_ret.distance

\* ------------------------------------------------------------------------
\* ECG adapter (src/src/ecg/adapter.py)
\* ------------------------------------------------------------------------
ECG_PEAK == "ecg_peak"
ECG_BPM_UPDATE == "ecg_bpm"

\* ECGAdapter.__init__: the detector's constants
BUF_LEN == 3 * FS
REFRACTORY_PERIOD == (25 * FS) \div 100
SEARCH_WIN == FS \div 10
\* the threshold is refreshed when the absolute sample index is a multiple of 50
THRESHOLD_UPDATE_EVERY == 50
\* threshold_mwi = 50 and its floor 10, in tenths; signal_mean = 120 and the
\* amplitude margin 5, in hundredths
INITIAL_THRESHOLD_MWI_X10 == 500
THRESHOLD_MWI_FLOOR_X10 == 100
INITIAL_SIGNAL_MEAN_X100 == 12000
AMPLITUDE_MARGIN_X100 == 500
\* _process_fallback: the amplitude of a synthetic peak
FALLBACK_VALUE == 800

\* One sample as the filter chain (notch, low pass, MA1, difference, square,
\* MA2) hands it to the detector: its MWI value and its MA1 value.  The
\* filters are linear maps of the raw samples; the model lets their outputs
\* take any of these values: a low MWI value on a raised signal, or an MWI
\* maximum.
Samples == { [mwi |-> 0, ma1 |-> 200], [mwi |-> 100, ma1 |-> 100] }

\* the batches one serial read can deliver
Batches == UNION { [1..n -> Samples] : n \in 1..MaxBatch }

\* outcomes of the try block of _init_ecg_hardware: it runs to its end, or
\* serial.Serial(...) raises, or reset_input_buffer() raises
InitOutcomes == {"ok", "open_failed", "reset_failed"}

\* max(s) of a non-empty list
MaxOf(s) == CHOOSE m \in {s[i] : i \in 1..Len(s)} : \A j \in 1..Len(s) : s[j] <= m

\* np.argmax(s): the first position of the maximum, counted from 0
ArgMax(s) ==
  (CHOOSE i \in 1..Len(s) : s[i] = MaxOf(s) /\ \A j \in 1..(i - 1) : s[j] < s[i]) - 1

RECURSIVE SumOf(_)
SumOf(s) == IF s = <<>> THEN 0 ELSE Head(s) + SumOf(Tail(s))

\* deque(maxlen=n).extend(xs) and .append(x)
ExtendBuf(buf, xs, n) ==
  LET all == buf \o xs
  IN IF Len(all) > n THEN SubSeq(all, Len(all) - n + 1, Len(all)) ELSE all

\* buf[k] for a negative index k
BufAt(buf, k) == buf[Len(buf) + k + 1]

\* list(buf)[-n:] for n > 0
LastN(buf, n) == IF Len(buf) > n THEN SubSeq(buf, Len(buf) - n + 1, Len(buf)) ELSE buf

\* 60.0 / np.mean(rr_history), rr_history in samples: <<numerator, denominator>>
BpmOf(rr) == <<60 * FS * Len(rr), SumOf(rr)>>

\* 0.4 < rr_sec < 1.5 with rr_sec = rr / FS
RRValid(rr) == 2 * FS < 5 * rr /\ 2 * rr < 3 * FS

\* signal_mean = 0.99 * signal_mean + 0.01 * x, in hundredths (truncated)
SignalMeanUpdate(mean_x100, x_x100) == (99 * mean_x100 + x_x100) \div 100

\* 0.4 * max(recent_mwi), at least 10, in tenths
AdapterThreshold(recent_mwi) ==
  LET t == 4 * MaxOf(recent_mwi)
  IN IF t < THRESHOLD_MWI_FLOOR_X10 THEN THRESHOLD_MWI_FLOOR_X10 ELSE t

\* the refractory test of the MWI candidate
CandidateRefractoryOk(peak_candidate_abs, last) ==
  (peak_candidate_abs - last) > REFRACTORY_PERIOD

\* a faulty variant: the back-searched peak is recorded without a refractory test
RealPeakNoRefractory(real_peak_abs, last) == TRUE

\* the refractory test of the back-searched peak
RealPeakRefractoryOk(real_peak_abs, last) == (real_peak_abs - last) > REFRACTORY_PERIOD

\* the slice of sig_ma1_buf searched for the R wave: the SEARCH_WIN samples
\* before the candidate
SearchData(ma1_buf, n, buf_idx) ==
  LET tail_data == LastN(ma1_buf, SEARCH_WIN + n + 10)
      search_end == buf_idx - 1
      search_start == search_end - SEARCH_WIN
      t_end == Len(tail_data) + search_end
      t_start0 == Len(tail_data) + search_start
      t_start == IF t_start0 < 0 THEN 0 ELSE t_start0
  IN IF t_end > t_start THEN SubSeq(tail_data, t_start + 1, t_end) ELSE <<>>

PeakEvent(dir, value, bpm) == [type |-> ECG_PEAK, dir |-> dir, value |-> value, bpm |-> bpm]
BpmEvent(bpm) == [type |-> ECG_BPM_UPDATE, dir |-> 0, value |-> 0, bpm |-> bpm]

\* the body of `if (real_peak_abs - last_peak_abs_idx) > REFRACTORY_PERIOD`:
\* the peak is recorded; events are published when the RR interval is valid
ConfirmPeak(st, real_peak_abs, local_max, t) ==
  LET hist == Append(st.hist, real_peak_abs)
      rr == real_peak_abs - st.hist[Len(st.hist)]
      valid == Len(hist) >= 2 /\ RRValid(rr)
      rrh == IF valid THEN ExtendBuf(st.rr, <<rr>>, 5) ELSE st.rr
      dir == IF valid THEN -st.dir ELSE st.dir
  IN [st EXCEPT !.hist = hist,
                !.last = real_peak_abs,
                !.lpt = t,
                !.rr = rrh,
                !.dir = dir,
                !.pub = IF valid
                          THEN @ \o <<PeakEvent(dir, local_max, BpmOf(rrh)),
                                      BpmEvent(BpmOf(rrh))>>
                          ELSE @]

\* `if len(self.sig_mwi_buf) < 3: continue` and `if buf_idx > -3: continue`
\* for sample i of a batch of n: the turn of the loop ends there
SkipsSample(i, n, mwi_buf) == Len(mwi_buf) < 3 \/ -(n - i) > -3

\* one turn of `for i in range(len(out_mwi))`
ExamineSample(st, i, n, mwi_buf, ma1_buf, base, mean_x100, t) ==
  LET curr_abs_idx == base + i
      buf_idx == -(n - i)
  IN IF SkipsSample(i, n, mwi_buf) THEN st
     ELSE
       LET curr_mwi_val == BufAt(mwi_buf, buf_idx)
           prev_mwi_val == BufAt(mwi_buf, buf_idx - 1)
           prev2_mwi_val == BufAt(mwi_buf, buf_idx - 2)
           thr == IF curr_abs_idx % THRESHOLD_UPDATE_EVERY = 0
                    THEN AdapterThreshold(LastN(mwi_buf, FS))
                    ELSE st.thr
           st1 == [st EXCEPT !.thr = thr]
           peak_candidate_abs == curr_abs_idx - 1
           search_data == SearchData(ma1_buf, n, buf_idx)
           local_max == MaxOf(search_data)
           offset == Len(search_data) - ArgMax(search_data)
           real_peak_abs == peak_candidate_abs - offset
       IN IF ~(/\ 10 * prev_mwi_val > thr
               /\ prev_mwi_val > curr_mwi_val
               /\ prev_mwi_val > prev2_mwi_val) THEN st1
          ELSE IF ~CandidateRefractoryOk(peak_candidate_abs, st.last) THEN st1
          ELSE IF search_data = <<>> THEN st1
          ELSE IF ~(100 * local_max > mean_x100 + AMPLITUDE_MARGIN_X100) THEN st1
          ELSE IF ~RealPeakRefractoryOk(real_peak_abs, st.last) THEN st1
          ELSE ConfirmPeak(st1, real_peak_abs, local_max, t)

RECURSIVE PeakLoop(_, _, _, _, _, _, _, _)
PeakLoop(st, i, n, mwi_buf, ma1_buf, base, mean_x100, t) ==
  IF i >= n THEN st
  ELSE PeakLoop(ExamineSample(st, i, n, mwi_buf, ma1_buf, base, mean_x100, t),
                i + 1, n, mwi_buf, ma1_buf, base, mean_x100, t)

\* ECGAdapter.__init__
AdapterInit ==
  /\ now = 0
  /\ a_running = FALSE
  /\ a_thread = "none"
  /\ use_fallback = FALSE
  /\ hardware_available = FALSE
  /\ ser = "none"
  /\ last_retry_time = 0
  /\ last_peak_time = 0
  /\ last_fallback_peak_time = 0
  /\ a_last_peak_dir = 1
  /\ sig_mwi_buf = [i \in 1..BUF_LEN |-> 0]
  /\ sig_ma1_buf = [i \in 1..BUF_LEN |-> 0]
  /\ a_sample_counter = 0
  /\ last_peak_abs_idx = -REFRACTORY_PERIOD
  /\ peak_indices_history = <<>>
  /\ a_rr_history = <<>>
  /\ threshold_mwi_x10 = INITIAL_THRESHOLD_MWI_X10
  /\ a_signal_mean_x100 = INITIAL_SIGNAL_MEAN_X100
  /\ a_published = <<>>
  /\ a_op = "init"
  /\ init_result = "none"
  /\ last_attempt_time = 0

\* a faulty _init_ecg_hardware: a failure leaves the mode alone
InitEcgHardwareKeepsMode(outcome) ==
  [use_fallback |-> FALSE,
   hardware_available |-> outcome = "ok",
   ser |-> IF outcome = "ok" THEN "open" ELSE "none",
   ret |-> outcome = "ok"]

\* _init_ecg_hardware: the fields it leaves behind and the value it returns;
\* any exception of the try block ends in the except branch
InitEcgHardware(outcome) ==
  [use_fallback |-> outcome # "ok",
   hardware_available |-> outcome = "ok",
   ser |-> IF outcome = "ok" THEN "open" ELSE "none",
   ret |-> outcome = "ok"]

\* a faulty retry test: strictly later than the interval
RetryDueStrict(t, last) == t - last > retry_interval

\* _processing_loop: time.time() - self.last_retry_time >= self.retry_interval
RetryDue(t, last) == t - last >= retry_interval

\* _process_real_ecg: time.time() - self.last_peak_time > self.no_signal_timeout
NoSignalTimedOut(t, last) == t - last > no_signal_timeout

\* time passes
Tick ==
  /\ now < MaxTime
  /\ now' = now + 1
  /\ UNCHANGED <<a_running, a_thread, use_fallback, hardware_available, ser,
                 last_retry_time, last_peak_time, last_fallback_peak_time,
                 a_last_peak_dir, detVars, a_published, a_op, init_result,
                 last_attempt_time>>
  /\ UNCHANGED notAdapter

\* ECGAdapter.start: returns at once on a running adapter; else initialises
\* the hardware and spawns the processing thread, whatever the outcome
AdapterStart(outcome) ==
  /\ ~a_running
  /\ LET r == InitEcgHardware(outcome)
     IN /\ use_fallback' = r.use_fallback
        /\ hardware_available' = r.hardware_available
        /\ ser' = r.ser
  /\ last_retry_time' = now
  /\ init_result' = outcome
  /\ last_attempt_time' = now
  /\ a_running' = TRUE
  /\ a_thread' = "thread"
  /\ a_published' = <<>>
  /\ a_op' = "start"
  /\ UNCHANGED <<now, last_peak_time, last_fallback_peak_time, a_last_peak_dir, detVars>>
  /\ UNCHANGED notAdapter

\* ECGAdapter.stop: clears the flag and joins the processing thread
AdapterStop ==
  /\ a_running
  /\ a_running' = FALSE
  /\ a_thread' = "none"
  /\ a_published' = <<>>
  /\ a_op' = "stop"
  /\ UNCHANGED <<now, use_fallback, hardware_available, ser, last_retry_time,
                 last_peak_time, last_fallback_peak_time, a_last_peak_dir, detVars,
                 init_result, last_attempt_time>>
  /\ UNCHANGED notAdapter

\* a faulty test that lets one more tick pass
FallbackPeakDueLate(t, last_fallback_peak) == t - last_fallback_peak > fallback_interval_sec
\* `if time_since_last_peak >= self.fallback_interval_sec`
FallbackPeakDue(t, last_fallback_peak) == t - last_fallback_peak >= fallback_interval_sec

\* a faulty turn in FALLBACK that publishes its peak without toggling the dir
LoopFallbackKeepsDir(outcome) ==
  /\ a_running
  /\ use_fallback
  /\ a_op' = "loop_fallback"
  /\ IF FallbackPeakDue(now, last_fallback_peak_time)
       THEN /\ last_fallback_peak_time' = now
            /\ a_last_peak_dir' = a_last_peak_dir
            /\ a_published' = <<PeakEvent(a_last_peak_dir, FALLBACK_VALUE, "fallback_bpm"),
                                BpmEvent("fallback_bpm")>>
       ELSE /\ a_published' = <<>>
            /\ UNCHANGED <<last_fallback_peak_time, a_last_peak_dir>>
  /\ IF RetryDue(now, last_retry_time)
       THEN /\ LET r == InitEcgHardware(outcome)
               IN /\ use_fallback' = r.use_fallback
                  /\ hardware_available' = r.hardware_available
                  /\ ser' = r.ser
            /\ last_retry_time' = now
            /\ init_result' = outcome
            /\ last_attempt_time' = now
       ELSE UNCHANGED <<use_fallback, hardware_available, ser, last_retry_time,
                        init_result, last_attempt_time>>
  /\ UNCHANGED <<now, a_running, a_thread, last_peak_time, detVars>>
  /\ UNCHANGED notAdapter

\* One turn of _processing_loop in FALLBACK: _process_fallback(), then the
\* retry of the hardware when it is due.
LoopFallback(outcome) ==
  /\ a_running
  /\ use_fallback
  /\ a_op' = "loop_fallback"
  /\ IF FallbackPeakDue(now, last_fallback_peak_time)
       THEN /\ last_fallback_peak_time' = now
            /\ a_last_peak_dir' = -a_last_peak_dir
            /\ a_published' = <<PeakEvent(-a_last_peak_dir, FALLBACK_VALUE, "fallback_bpm"),
                                BpmEvent("fallback_bpm")>>
       ELSE /\ a_published' = <<>>
            /\ UNCHANGED <<last_fallback_peak_time, a_last_peak_dir>>
  /\ IF RetryDue(now, last_retry_time)
       THEN /\ LET r == InitEcgHardware(outcome)
               IN /\ use_fallback' = r.use_fallback
                  /\ hardware_available' = r.hardware_available
                  /\ ser' = r.ser
            /\ last_retry_time' = now
            /\ init_result' = outcome
            /\ last_attempt_time' = now
       ELSE UNCHANGED <<use_fallback, hardware_available, ser, last_retry_time,
                        init_result, last_attempt_time>>
  /\ UNCHANGED <<now, a_running, a_thread, last_peak_time, detVars>>
  /\ UNCHANGED notAdapter

\* what one serial read finds: nothing waiting, bytes without a parsable
\* line, a batch of samples, or an exception of the port
SilentRead == [kind |-> "silent", batch |-> <<>>]
GarbageRead == [kind |-> "garbage", batch |-> <<>>]
ErrorRead == [kind |-> "error", batch |-> <<>>]
DataRead(batch) == [kind |-> "data", batch |-> batch]

\* _process_real_ecg for a batch of new samples: buffers, baseline, peak loop
ProcessBatch(batch) ==
  LET n == Len(batch)
      out_mwi == [i \in 1..n |-> batch[i].mwi]
      out_ma1 == [i \in 1..n |-> batch[i].ma1]
      mwi_buf == ExtendBuf(sig_mwi_buf, out_mwi, BUF_LEN)
      ma1_buf == ExtendBuf(sig_ma1_buf, out_ma1, BUF_LEN)
      batch_mean_x100 == (100 * SumOf(out_ma1)) \div n
      mean_x100 == SignalMeanUpdate(a_signal_mean_x100, batch_mean_x100)
      st0 == [thr |-> threshold_mwi_x10, last |-> last_peak_abs_idx,
              hist |-> peak_indices_history, rr |-> a_rr_history,
              lpt |-> last_peak_time, dir |-> a_last_peak_dir, pub |-> <<>>]
      st == PeakLoop(st0, 0, n, mwi_buf, ma1_buf, a_sample_counter, mean_x100, now)
  IN /\ sig_mwi_buf' = mwi_buf
     /\ sig_ma1_buf' = ma1_buf
     /\ a_signal_mean_x100' = mean_x100
     /\ threshold_mwi_x10' = st.thr
     /\ last_peak_abs_idx' = st.last
     /\ peak_indices_history' = st.hist
     /\ a_rr_history' = st.rr
     /\ last_peak_time' = st.lpt
     /\ a_last_peak_dir' = st.dir
     /\ a_published' = st.pub
     /\ a_sample_counter' = a_sample_counter + n

\* One turn of _processing_loop in REAL: _process_real_ecg(); an exception it
\* raises sends the adapter to FALLBACK.
LoopReal(input) ==
  /\ a_running
  /\ ~use_fallback
  /\ a_op' = "loop_real"
  /\ CASE ser = "none" ->
            /\ a_published' = <<>>
            /\ UNCHANGED <<use_fallback, hardware_available, last_retry_time,
                           last_peak_time, a_last_peak_dir, detVars>>
       [] ser # "none" /\ input.kind = "error" ->
            /\ use_fallback' = TRUE
            /\ hardware_available' = FALSE
            /\ last_retry_time' = now
            /\ a_published' = <<>>
            /\ UNCHANGED <<last_peak_time, a_last_peak_dir, detVars>>
       [] ser # "none" /\ input.kind = "silent" ->
            /\ IF NoSignalTimedOut(now, last_peak_time)
                 THEN /\ use_fallback' = TRUE
                      /\ hardware_available' = FALSE
                 ELSE UNCHANGED <<use_fallback, hardware_available>>
            /\ a_published' = <<>>
            /\ UNCHANGED <<last_retry_time, last_peak_time, a_last_peak_dir, detVars>>
       [] ser # "none" /\ input.kind = "garbage" ->
            /\ a_published' = <<>>
            /\ UNCHANGED <<use_fallback, hardware_available, last_retry_time,
                           last_peak_time, a_last_peak_dir, detVars>>
       [] ser # "none" /\ input.kind = "data" ->
            /\ a_sample_counter + Len(input.batch) <= MaxSamples
            /\ ProcessBatch(input.batch)
            /\ UNCHANGED <<use_fallback, hardware_available, last_retry_time>>
  /\ UNCHANGED <<now, a_running, a_thread, last_fallback_peak_time, ser, init_result,
                 last_attempt_time>>
  /\ UNCHANGED notAdapter

\* the reads of the mode specification: a batch without a peak, and a batch
\* that ends on an MWI maximum, which the next batch confirms as an R peak
FlatBatch == [i \in 1..3 |-> [mwi |-> 0, ma1 |-> 100]]
RiseBatch == << [mwi |-> 0, ma1 |-> 100], [mwi |-> 0, ma1 |-> 200], [mwi |-> 100, ma1 |-> 100] >>
ModeReads == {SilentRead, GarbageRead, ErrorRead, DataRead(FlatBatch), DataRead(RiseBatch)}

NextEcgMode ==
  \/ Tick
  \/ \E outcome \in InitOutcomes : AdapterStart(outcome)
  \/ AdapterStop
  \/ \E outcome \in InitOutcomes : LoopFallback(outcome)
  \/ \E input \in ModeReads :
       /\ a_sample_counter + Len(input.batch) <= DetectSamples
       /\ LoopReal(input)

\* ------------------------------------------------------------------------
\* ECG manager (src/src/ecg/manager.py)
\* ------------------------------------------------------------------------
\* ECGManager._init_peak_detector
refractory_samples == (25 * FS) \div 100
buffer_len == 3 * FS
search_window == FS \div 10
\* threshold = -10 and its floor 20, in tenths; signal_mean = 120 and the
\* amplitude margin 20, in hundredths
MGR_INITIAL_THRESHOLD_X10 == -100
MGR_THRESHOLD_FLOOR_X10 == 200
MGR_INITIAL_SIGNAL_MEAN_X100 == 12000
MGR_AMPLITUDE_MARGIN_X100 == 2000
MGR_THRESHOLD_UPDATE_EVERY == 50

\* ECGManager.__init__
MgrInit ==
  /\ mwi_history = [i \in 1..buffer_len |-> 0]
  /\ sig_history = [i \in 1..buffer_len |-> 0]
  /\ m_sample_counter = 0
  /\ last_peak_counter = -refractory_samples
  /\ peak_history = <<>>
  /\ m_rr_history = <<>>
  /\ m_threshold_x10 = MGR_INITIAL_THRESHOLD_X10
  /\ m_signal_mean_x100 = MGR_INITIAL_SIGNAL_MEAN_X100
  /\ m_bpm = <<0, 1>>
  /\ m_last_peak_dir = 1
  /\ m_published = <<>>

\* 0.5 * max(recent), at least 20, in tenths
MgrThreshold(recent) ==
  LET t == 5 * MaxOf(recent)
  IN IF t < MGR_THRESHOLD_FLOOR_X10 THEN MGR_THRESHOLD_FLOOR_X10 ELSE t

\* _detect_peak: (sample_counter - last_peak_counter) <= refractory_samples
MgrInRefractory(counter, last) == (counter - last) <= refractory_samples

\* the sig_history slice _detect_peak searches for the amplitude
MgrSearchRegion(sig_buf) ==
  IF Len(sig_buf) >= search_window
    THEN SubSeq(sig_buf, Len(sig_buf) - search_window + 1, Len(sig_buf))
    ELSE sig_buf

\* _detect_peak on the state _process_sample has prepared: the detector
\* fields it leaves behind, and (is_peak, amplitude)
DetectPeak(counter, mwi_buf, sig_buf, mean_x100) ==
  LET thr == IF counter % MGR_THRESHOLD_UPDATE_EVERY = 0 /\ Len(mwi_buf) > FS
               THEN MgrThreshold(LastN(mwi_buf, FS))
               ELSE m_threshold_x10
      quiet == [thr |-> thr, last |-> last_peak_counter, hist |-> peak_history,
                rr |-> m_rr_history, bpm |-> m_bpm, is_peak |-> FALSE, amplitude |-> 0]
      prev == BufAt(mwi_buf, -3)
      curr == BufAt(mwi_buf, -2)
      nextv == BufAt(mwi_buf, -1)
      search_region == MgrSearchRegion(sig_buf)
      local_max == MaxOf(search_region)
      hist == Append(peak_history, counter)
      rr_samples == counter - peak_history[Len(peak_history)]
      valid == Len(hist) >= 2 /\ RRValid(rr_samples)
      rrh == IF valid THEN ExtendBuf(m_rr_history, <<rr_samples>>, 5) ELSE m_rr_history
  IN IF counter < 3 THEN [quiet EXCEPT !.thr = m_threshold_x10]
     ELSE IF MgrInRefractory(counter, last_peak_counter) THEN quiet
     ELSE IF Len(mwi_buf) < 3 THEN quiet
     ELSE IF ~(10 * curr > thr /\ curr > prev /\ curr > nextv) THEN quiet
     ELSE IF search_region = <<>> THEN quiet
     ELSE IF ~(100 * local_max > mean_x100 + MGR_AMPLITUDE_MARGIN_X100) THEN quiet
     ELSE [thr |-> thr, last |-> counter, hist |-> hist, rr |-> rrh,
           bpm |-> IF valid THEN BpmOf(rrh) ELSE m_bpm,
           is_peak |-> TRUE, amplitude |-> local_max]

\* One sample in ECGManager._processing_loop: _process_sample(raw_value), then
\* the events of a detected peak.
MgrProcessSample(s) ==
  /\ m_sample_counter < MaxSamples
  /\ LET counter == m_sample_counter + 1
         sig_buf == ExtendBuf(sig_history, <<s.ma1>>, buffer_len)
         mwi_buf == ExtendBuf(mwi_history, <<s.mwi>>, buffer_len)
         mean_x100 == SignalMeanUpdate(m_signal_mean_x100, 100 * s.ma1)
         r == DetectPeak(counter, mwi_buf, sig_buf, mean_x100)
     IN /\ m_sample_counter' = counter
        /\ sig_history' = sig_buf
        /\ mwi_history' = mwi_buf
        /\ m_signal_mean_x100' = mean_x100
        /\ m_threshold_x10' = r.thr
        /\ last_peak_counter' = r.last
        /\ peak_history' = r.hist
        /\ m_rr_history' = r.rr
        /\ m_bpm' = r.bpm
        /\ m_last_peak_dir' = IF r.is_peak THEN -m_last_peak_dir ELSE m_last_peak_dir
        /\ m_published' =
             IF ~r.is_peak THEN <<>>
             ELSE <<PeakEvent(-m_last_peak_dir, r.amplitude, r.bpm)>>
                  \o (IF r.bpm[1] > 0 THEN <<BpmEvent(r.bpm)>> ELSE <<>>)
  /\ UNCHANGED notMgr

\* The adapter and the manager are separate objects that share no state: a
\* behaviour of the detection specification feeds samples to one of them.
AdapterUnused == a_op = "init"
MgrUnused == m_sample_counter = 0

NextEcgDetect ==
  \/ MgrUnused /\ \E outcome \in InitOutcomes : AdapterStart(outcome)
  \/ MgrUnused /\ \E batch \in Batches :
       /\ a_sample_counter + Len(batch) <= DetectSamples
       /\ LoopReal(DataRead(batch))
  \/ AdapterUnused /\ m_sample_counter < DetectSamples
       /\ \E s \in Samples : MgrProcessSample(s)

\* The events of the two components: the adapter through its modes, on the
\* reads that lead to R peaks with a valid and with a short RR interval, and
\* the manager on its samples.
EventReads == {ErrorRead, DataRead(FlatBatch), DataRead(RiseBatch)}

NextEcgEvents ==
  \/ MgrUnused /\ now < EventTime /\ Tick
  \/ MgrUnused /\ \E outcome \in {"ok", "open_failed"} : AdapterStart(outcome)
  \/ MgrUnused /\ \E outcome \in {"ok", "open_failed"} : LoopFallback(outcome)
  \/ MgrUnused /\ \E input \in EventReads : LoopReal(input)
  \/ AdapterUnused /\ \E s \in Samples : MgrProcessSample(s)

\* ------------------------------------------------------------------------
\* Voice controller (src/audio/controller.py)
\* ------------------------------------------------------------------------
\* the members of the EventType enumeration
EventTypeMembers ==
  {"ECG_PEAK", "ECG_BPM_UPDATE", "ECG_ERROR", "VOICE_COMMAND", "VOICE_NOISE",
   "VOICE_ERROR", "GAME_START", "GAME_PAUSE", "GAME_OVER", "SYSTEM_SHUTDOWN"}

VOICE_COMMAND == "voice_command"
VOICE_NOISE == "voice_noise"
VOICE_ERROR == "voice_error"

\* VoiceController.COMMAND_TO_ACTION
COMMAND_TO_ACTION ==
  [c \in {"START", "PAUSE", "JUMP", "FLIP"} |-> c]

\* COMMAND_TO_ACTION.get(cmd, cmd)
ActionOf(cmd) == IF cmd \in DOMAIN COMMAND_TO_ACTION THEN COMMAND_TO_ACTION[cmd] ELSE cmd

\* the length to which the model lets the polling queue grow
MaxQueued == 1

NoVad == [state |-> "None", bg |-> 0, buf |-> 0, sil |-> 0, sp |-> 0]
NoTarget == "None"
NoTurn == [segment |-> FALSE, outcome |-> "-", error |-> FALSE, queued |-> "None",
           cal |-> "-"]

\* what MultiMethodMatcher.recognize does with a segment: the command it
\* returns, or "raise" when it (or the feature extraction in it) raises
RecOutcomes == {"JUMP", "START", "NONE", "NOISE", "raise"}
\* the commands calibration is started for
CalibrationCommands == {"JUMP"}
\* what the segment does in the calibration block: _validate_audio rejects
\* it, add_template raises in the first or in the last matcher, or neither
CalOutcomes == {"invalid", "add_fails_first", "add_fails_last", "ok"}
\* the number of templates per matcher up to which the model lets the
\* store grow
MaxTemplates == 2
\* the matchers' templates for the calibration command: none in freedom
\* mode, the one loaded from the template directory otherwise
NoTemplates == [m \in Methods |-> <<>>]
LoadedTemplates == [m \in Methods |-> <<"file">>]
\* the level measure_background finds at start
MeasuredBackground == {DEFAULT_BACKGROUND_RMS}
\* loud and quiet chunks
VoiceEnergies == {0, 2000}

VoiceEvent(type, cmd) == [type |-> type, command |-> cmd]

\* VAD(background_rms=bg_rms)
NewVad(bg) == [state |-> SILENCE, bg |-> bg, buf |-> 0, sil |-> 0, sp |-> 0]

\* VAD.reset on the controller's VAD
ResetVad(v) == [v EXCEPT !.state = SILENCE, !.buf = 0, !.sil = 0, !.sp = 0]

\* VoiceController.__init__(freedom_mode=fm)
VoiceInit(fm) ==
  /\ vc_running = FALSE
  /\ vc_vad = NoVad
  /\ calibration_target = NoTarget
  /\ freedom_mode = fm
  /\ command_queue = <<>>
  /\ vc_published = <<>>
  /\ vc_turn = NoTurn
  /\ vc_polled = "None"
  /\ calibration_expired = FALSE
  /\ cal_templates = IF fm THEN NoTemplates ELSE LoadedTemplates
  /\ vc_op = "init"

\* VoiceController.start: outcome "ok", or "no_device" when no input device is
\* found (the error is published and raised again)
VoiceStart(outcome, bg) ==
  /\ ~vc_running
  /\ IF outcome = "ok"
       THEN /\ vc_vad' = NewVad(bg)
            /\ vc_running' = TRUE
            /\ vc_published' = <<>>
       ELSE /\ vc_published' = <<VoiceEvent(VOICE_ERROR, "-")>>
            /\ UNCHANGED <<vc_vad, vc_running>>
  /\ vc_op' = "start"
  /\ vc_turn' = NoTurn
  /\ vc_polled' = "None"
  /\ UNCHANGED <<calibration_target, freedom_mode, command_queue, calibration_expired,
                 cal_templates>>
  /\ UNCHANGED notVoice

\* VoiceController.stop
VoiceStop ==
  /\ vc_running
  /\ vc_running' = FALSE
  /\ vc_published' = <<>>
  /\ vc_op' = "stop"
  /\ vc_turn' = NoTurn
  /\ vc_polled' = "None"
  /\ UNCHANGED <<vc_vad, calibration_target, freedom_mode, command_queue,
                 calibration_expired, cal_templates>>
  /\ UNCHANGED notVoice

\* VoiceController.start_calibration_mode
StartCalibrationMode(command) ==
  /\ calibration_target' = command
  /\ vc_vad' = IF vc_vad # NoVad THEN ResetVad(vc_vad) ELSE vc_vad
  /\ vc_published' = <<>>
  /\ calibration_expired' = FALSE
  /\ vc_op' = "start_calibration_mode"
  /\ vc_turn' = NoTurn
  /\ vc_polled' = "None"
  /\ UNCHANGED <<vc_running, freedom_mode, command_queue, cal_templates>>
  /\ UNCHANGED notVoice

\* VoiceController.stop_calibration_mode
StopCalibrationMode ==
  /\ calibration_target' = NoTarget
  /\ vc_published' = <<>>
  /\ vc_op' = "stop_calibration_mode"
  /\ calibration_expired' = FALSE
  /\ vc_turn' = NoTurn
  /\ vc_polled' = "None"
  /\ UNCHANGED <<vc_running, vc_vad, freedom_mode, command_queue, cal_templates>>
  /\ UNCHANGED notVoice

\* VoiceController.listen_and_analyze: the head of the queue, or None
ListenAndAnalyze ==
  /\ IF command_queue # <<>>
       THEN /\ vc_polled' = Head(command_queue)
            /\ command_queue' = Tail(command_queue)
       ELSE /\ vc_polled' = "None"
            /\ UNCHANGED command_queue
  /\ vc_published' = <<>>
  /\ vc_op' = "listen_and_analyze"
  /\ vc_turn' = NoTurn
  /\ UNCHANGED <<vc_running, vc_vad, calibration_target, freedom_mode,
                 calibration_expired, cal_templates>>
  /\ UNCHANGED notVoice

\* the calibration block of _recognition_loop for a recognised command: TRUE
\* when it ends in an exception that leaves the block.  Every branch that
\* acts evaluates EventType.CALIBRATION_RESULT or EventType.PLAYBACK_START;
\* inside the inner try blocks the handler evaluates
\* EventType.CALIBRATION_RESULT again.
CalibrationRaises(target, cmd, timed_out) ==
  /\ target # NoTarget
  /\ (timed_out \/ freedom_mode \/ cmd = target)
  /\ "CALIBRATION_RESULT" \notin EventTypeMembers

\* the calibration block when every event type it names exists: the target
\* after it
CalibrationTarget(target, cmd, timed_out, valid, add_ok) ==
  IF target = NoTarget THEN target
  ELSE IF timed_out THEN NoTarget
  ELSE IF freedom_mode THEN (IF valid /\ add_ok THEN NoTarget ELSE target)
  ELSE IF cmd = target THEN NoTarget
  ELSE target

\* the events of the calibration block when every event type it names exists
CalibrationEvents(target, cmd, timed_out, valid, add_ok) ==
  IF target = NoTarget THEN <<>>
  ELSE IF timed_out THEN <<VoiceEvent("calibration_result", target)>>
  ELSE IF freedom_mode
    THEN IF valid /\ add_ok
           THEN <<VoiceEvent("playback_start", target),
                  VoiceEvent("playback_complete", target),
                  VoiceEvent("calibration_result", target)>>
           ELSE <<VoiceEvent("calibration_result", target)>>
  ELSE IF cmd = target THEN <<VoiceEvent("calibration_result", target)>>
  ELSE <<>>

\* MultiMethodMatcher.add_template: the matchers take the template in turn
\* until one raises
AddTemplateAll(tpl, cal) ==
  LET added == IF cal = "add_fails_first" THEN 0
               ELSE IF cal = "add_fails_last" THEN Len(DefaultMethods) - 1
               ELSE Len(DefaultMethods)
  IN [m \in Methods |->
        IF \E i \in 1..added : DefaultMethods[i] = m
          THEN Append(tpl[m], "segment") ELSE tpl[m]]

\* the calibration block of _recognition_loop: the templates after it.
\* _clear_command_templates and add_template run before the first event of
\* their branch is built.
CalibrationStore(tpl, target, cmd, timed_out, cal) ==
  IF target = NoTarget \/ timed_out THEN tpl
  ELSE IF freedom_mode
    THEN (IF cal # "invalid" THEN AddTemplateAll(NoTemplates, cal) ELSE tpl)
  ELSE IF cmd = target THEN AddTemplateAll(tpl, cal)
  ELSE tpl

\* the VAD after the `except Exception` handler of _recognition_loop
HandlerVad(v) == v

\* the publication step of _recognition_loop for a recognised command
SegmentEvents(cmd) ==
  IF cmd \notin {"NONE", "NOISE"}
    THEN <<VoiceEvent(VOICE_COMMAND, cmd)>>
    ELSE <<VoiceEvent(VOICE_NOISE, "-")>>

\* one turn of the while loop of _recognition_loop on a chunk that is not
\* empty: the VAD step and, when it emits a segment, recognition, the
\* calibration block, the publication and the VAD reset
RecognitionTurn(energy, outcome, cal) ==
  /\ vc_running
  /\ Len(command_queue) < MaxQueued
  /\ LET r == ProcessChunkResult(vc_vad.state, vc_vad.buf, vc_vad.sil, vc_vad.sp,
                                 IsSpeech(energy, vc_vad.bg))
         v == [state |-> r.state, bg |-> vc_vad.bg, buf |-> r.buf, sil |-> r.sil,
               sp |-> r.sp]
         emitted == r.state = PROCESSING /\ r.seg # NoSegment
         timed_out == calibration_expired
         valid == cal # "invalid"
         add_ok == cal \notin {"add_fails_first", "add_fails_last"}
         store == CalibrationStore(cal_templates, calibration_target, outcome,
                                   timed_out, cal)
         how == IF calibration_target = NoTarget THEN "-"
                ELSE IF timed_out THEN "timeout" ELSE cal
     IN
     IF ~emitted
       THEN /\ vc_vad' = v
            /\ vc_turn' = NoTurn
            /\ vc_published' = <<>>
            /\ UNCHANGED <<calibration_target, command_queue, cal_templates,
                           calibration_expired>>
     ELSE IF outcome = "raise"
       THEN /\ vc_vad' = HandlerVad(v)
            /\ vc_turn' = [segment |-> TRUE, outcome |-> outcome, error |-> TRUE,
                           queued |-> "None", cal |-> "-"]
            /\ vc_published' = <<VoiceEvent(VOICE_ERROR, "-")>>
            /\ UNCHANGED <<calibration_target, command_queue, cal_templates,
                           calibration_expired>>
     ELSE IF CalibrationRaises(calibration_target, outcome, timed_out)
       THEN /\ \A m \in Methods : Len(store[m]) <= MaxTemplates
            /\ vc_vad' = HandlerVad(v)
            /\ vc_turn' = [segment |-> TRUE, outcome |-> outcome, error |-> TRUE,
                           queued |-> "None", cal |-> how]
            /\ vc_published' = <<VoiceEvent(VOICE_ERROR, "-")>>
            /\ cal_templates' = store
            /\ UNCHANGED <<calibration_target, command_queue, calibration_expired>>
     ELSE /\ \A m \in Methods : Len(store[m]) <= MaxTemplates
          /\ vc_vad' = ResetVad(v)
          /\ vc_turn' = [segment |-> TRUE, outcome |-> outcome, error |-> FALSE,
                         queued |-> IF outcome \notin {"NONE", "NOISE"}
                                      THEN ActionOf(outcome) ELSE "None",
                         cal |-> how]
          /\ vc_published' =
               CalibrationEvents(calibration_target, outcome, timed_out, valid, add_ok)
                 \o SegmentEvents(outcome)
          /\ calibration_target' =
               CalibrationTarget(calibration_target, outcome, timed_out, valid, add_ok)
          /\ calibration_expired' =
               (calibration_expired
                  /\ CalibrationTarget(calibration_target, outcome, timed_out, valid,
                                       add_ok) # NoTarget)
          /\ cal_templates' = store
          /\ command_queue' =
               IF outcome \notin {"NONE", "NOISE"}
                 THEN Append(command_queue, ActionOf(outcome))
                 ELSE command_queue
  /\ vc_op' = "turn"
  /\ vc_polled' = "None"
  /\ UNCHANGED <<vc_running, freedom_mode>>
  /\ UNCHANGED notVoice

\* the clock passes _calibration_start_time + 10.0
TimePasses ==
  /\ calibration_target # NoTarget
  /\ ~calibration_expired
  /\ calibration_expired' = TRUE
  /\ vc_published' = <<>>
  /\ vc_op' = "time_passes"
  /\ vc_turn' = NoTurn
  /\ vc_polled' = "None"
  /\ UNCHANGED <<vc_running, vc_vad, calibration_target, freedom_mode, command_queue,
                 cal_templates>>
  /\ UNCHANGED notVoice

\* outside calibration nothing is validated or added
CalInputs == IF calibration_target = NoTarget THEN {"ok"} ELSE CalOutcomes

\* a turn of the loop on a quiet chunk
QuietTurn ==
  \E outcome \in RecOutcomes, cal \in CalInputs : RecognitionTurn(0, outcome, cal)

NextVoice ==
  \/ \E outcome \in {"ok", "no_device"}, bg \in MeasuredBackground :
       VoiceStart(outcome, bg)
  \/ VoiceStop
  \/ \E command \in CalibrationCommands : StartCalibrationMode(command)
  \/ StopCalibrationMode
  \/ ListenAndAnalyze
  \/ TimePasses
  \/ \E energy \in VoiceEnergies, outcome \in RecOutcomes, cal \in CalInputs :
       RecognitionTurn(energy, outcome, cal)

\* ------------------------------------------------------------------------
\* EventBus as a singleton (EventBus.__new__, EventBus.__init__)
\* ------------------------------------------------------------------------
\* the threads that construct and use the bus
Threads == {"t1", "t2"}
\* EventBus() calls begun, and subscribe / publish calls made, in a behaviour
MaxConstructs == 3
MaxUses == 2

\* class EventBus before the first construction
SingletonInit ==
  /\ cls_instance = 0
  /\ n_objects = 0
  /\ sg_initialized = FALSE
  /\ sg_subscribers = <<>>
  /\ sg_queue = 0
  /\ c_pc = [th \in Threads |-> "idle"]
  /\ c_obj = [th \in Threads |-> 0]
  /\ c_ret = [th \in Threads |-> 0]
  /\ n_constructs = 0
  /\ n_uses = 0
  /\ sg_discarded = FALSE

\* EventBus.__new__: the object it returns
NewObject(inst, n) == IF inst = 0 THEN n + 1 ELSE inst

\* EventBus.__new__, the whole body under cls._lock
SingletonNew(th) ==
  /\ c_pc[th] = "idle"
  /\ n_constructs < MaxConstructs
  /\ n_constructs' = n_constructs + 1
  /\ cls_instance' = NewObject(cls_instance, n_objects)
  /\ n_objects' = IF cls_instance' # cls_instance THEN n_objects + 1 ELSE n_objects
  /\ sg_initialized' = IF cls_instance' # cls_instance THEN FALSE ELSE sg_initialized
  /\ c_obj' = [c_obj EXCEPT ![th] = cls_instance']
  /\ c_pc' = [c_pc EXCEPT ![th] = "init"]
  /\ UNCHANGED <<sg_subscribers, sg_queue, c_ret, n_uses, sg_discarded>>
  /\ UNCHANGED notSingleton

\* EventBus.__init__: `if self._initialized: return`
SingletonInitCheck(th) ==
  /\ c_pc[th] = "init"
  /\ IF sg_initialized
       THEN /\ c_pc' = [c_pc EXCEPT ![th] = "idle"]
            /\ c_ret' = [c_ret EXCEPT ![th] = c_obj[th]]
       ELSE /\ c_pc' = [c_pc EXCEPT ![th] = "body"]
            /\ UNCHANGED c_ret
  /\ UNCHANGED <<cls_instance, n_objects, sg_initialized, sg_subscribers, sg_queue,
                 c_obj, n_constructs, n_uses, sg_discarded>>
  /\ UNCHANGED notSingleton

\* EventBus.__init__: the assignments after the test
SingletonInitBody(th) ==
  /\ c_pc[th] = "body"
  /\ sg_subscribers' = <<>>
  /\ sg_queue' = 0
  /\ sg_initialized' = TRUE
  /\ sg_discarded' = (sg_discarded \/ sg_subscribers # <<>> \/ sg_queue # 0)
  /\ c_pc' = [c_pc EXCEPT ![th] = "idle"]
  /\ c_ret' = [c_ret EXCEPT ![th] = c_obj[th]]
  /\ UNCHANGED <<cls_instance, n_objects, c_obj, n_constructs, n_uses>>
  /\ UNCHANGED notSingleton

\* EventBus.subscribe by a thread on the bus its EventBus() returned
SingletonSubscribe(th, cb) ==
  /\ c_pc[th] = "idle"
  /\ c_ret[th] # 0
  /\ n_uses < MaxUses
  /\ n_uses' = n_uses + 1
  /\ sg_subscribers' = Append(sg_subscribers, cb)
  /\ UNCHANGED <<cls_instance, n_objects, sg_initialized, sg_queue, c_pc, c_obj, c_ret,
                 n_constructs, sg_discarded>>
  /\ UNCHANGED notSingleton

\* EventBus.publish by a thread on the bus its EventBus() returned
SingletonPublish(th) ==
  /\ c_pc[th] = "idle"
  /\ c_ret[th] # 0
  /\ n_uses < MaxUses
  /\ n_uses' = n_uses + 1
  /\ sg_queue' = sg_queue + 1
  /\ UNCHANGED <<cls_instance, n_objects, sg_initialized, sg_subscribers, c_pc, c_obj,
                 c_ret, n_constructs, sg_discarded>>
  /\ UNCHANGED notSingleton

NextSingleton ==
  \/ \E th \in Threads : SingletonNew(th)
  \/ \E th \in Threads : SingletonInitCheck(th)
  \/ \E th \in Threads : SingletonInitBody(th)
  \/ \E th \in Threads, cb \in Callbacks : SingletonSubscribe(th, cb)
  \/ \E th \in Threads : SingletonPublish(th)

\* ------------------------------------------------------------------------
\* Ring buffer (src/audio_io.py, RingBuffer)
\* ------------------------------------------------------------------------
\* deque(maxlen=max_samples): the capacity, in samples, scaled down
RingCapacity == 3
\* the chunks given to append in a behaviour
MaxChunks == 3
\* the lengths of the chunks, and the sample counts asked of get_last_ms
ChunkLens == {1, 2}
ReadCounts == {0, 1, 2, 4}

\* the samples of chunk number c of length n: each knows its place
ChunkSamples(c, n) == [k \in 1..n |-> [c |-> c, k |-> k, n |-> n]]

NoRead == [op |-> "none", n |-> 0, data |-> <<>>]

\* RingBuffer.__init__
RingInit ==
  /\ rb_buffer = <<>>
  /\ rb_lock = "free"
  /\ rb_pending = <<>>
  /\ rb_read = NoRead
  /\ rb_log = <<>>
  /\ n_chunks = 0

\* a faulty deque: a full deque drops the new sample
DequeAppendDropsNewest(buf, s) ==
  IF Len(buf) >= RingCapacity THEN buf ELSE Append(buf, s)

\* deque(maxlen).append: a full deque drops its oldest element
DequeAppend(buf, s) ==
  IF Len(buf) >= RingCapacity THEN Append(Tail(buf), s) ELSE Append(buf, s)

\* a faulty lock that never excludes anyone
LockNeverHeld(l) == TRUE

\* `with self._lock` can be entered
LockFree(l) == l = "free"

\* list(self._buffer)[-n:] if len >= n else the whole list; [-0:] is the whole list
LastSamples(data, n) ==
  IF Len(data) >= n /\ n > 0 THEN SubSeq(data, Len(data) - n + 1, Len(data)) ELSE data

\* RingBuffer.append: the lock is taken
AppendBegin(n) ==
  /\ LockFree(rb_lock)
  /\ rb_pending = <<>>
  /\ n_chunks < MaxChunks
  /\ n_chunks' = n_chunks + 1
  /\ rb_lock' = "writer"
  /\ rb_pending' = ChunkSamples(n_chunks + 1, n)
  /\ UNCHANGED <<rb_buffer, rb_read, rb_log>>
  /\ UNCHANGED notRing

\* RingBuffer.append: one turn of `for s in samples: self._buffer.append(s)`
AppendSample ==
  /\ rb_pending # <<>>
  /\ rb_buffer' = DequeAppend(rb_buffer, Head(rb_pending))
  /\ rb_log' = Append(rb_log, Head(rb_pending))
  /\ rb_pending' = Tail(rb_pending)
  /\ UNCHANGED <<rb_lock, rb_read, n_chunks>>
  /\ UNCHANGED notRing

\* RingBuffer.append: the loop is over, the lock is released
AppendEnd ==
  /\ rb_lock = "writer"
  /\ rb_pending = <<>>
  /\ rb_lock' = "free"
  /\ UNCHANGED <<rb_buffer, rb_pending, rb_read, rb_log, n_chunks>>
  /\ UNCHANGED notRing

\* RingBuffer.get_all
GetAll ==
  /\ LockFree(rb_lock)
  /\ rb_read' = [op |-> "get_all", n |-> 0, data |-> rb_buffer]
  /\ UNCHANGED <<rb_buffer, rb_lock, rb_pending, rb_log, n_chunks>>
  /\ UNCHANGED notRing

\* RingBuffer.get_last_ms, for a duration of n samples
GetLastMs(n) ==
  /\ LockFree(rb_lock)
  /\ rb_read' = [op |-> "get_last_ms", n |-> n, data |-> LastSamples(rb_buffer, n)]
  /\ UNCHANGED <<rb_buffer, rb_lock, rb_pending, rb_log, n_chunks>>
  /\ UNCHANGED notRing

\* RingBuffer.clear
RingClear ==
  /\ LockFree(rb_lock)
  /\ rb_buffer' = <<>>
  /\ rb_log' = <<>>
  /\ UNCHANGED <<rb_lock, rb_pending, rb_read, n_chunks>>
  /\ UNCHANGED notRing

NextRing ==
  \/ \E n \in ChunkLens : AppendBegin(n)
  \/ AppendSample
  \/ AppendEnd
  \/ GetAll
  \/ \E n \in ReadCounts : GetLastMs(n)
  \/ RingClear

\* ------------------------------------------------------------------------
\* MultiMethodMatcher: soft voting (recognize) and hard voting
\* (recognize_voting).  Weights are in tenths; mel distances in hundredths.
\* ------------------------------------------------------------------------
\* config.THRESHOLD_MEL = 0.60, in hundredths
THRESHOLD_MEL == 60

\* the method lists the matcher is built with: the default and the one of
\* the arena tests
MethodLists == {<<"mfcc_dtw", "lpc">>, <<"mfcc_dtw", "mel", "lpc">>}

\* getattr(self.matchers.get(method), 'threshold', 1.0)
MatcherThreshold(m) == IF m = "mel" THEN THRESHOLD_MEL ELSE Threshold(m)

\* one unit of confidence: a multiple of every threshold, so that
\* 1 - distance/threshold is a whole number of units
ConfUnit == THRESHOLD_MFCC_DTW * THRESHOLD_FAST_LPC * THRESHOLD_MEL

\* the distances a per-method matcher reports
DistLevels(m) == {0, MatcherThreshold(m) \div 4, MatcherThreshold(m),
                  2 * MatcherThreshold(m)}

\* what matcher.recognize of one method can return: a command only within
\* the threshold, NONE only beyond it, NOISE with the noise distance
MethodResults(m) ==
  { [command |-> c, distance |-> dist, best_template |-> <<m, c>>] :
      c \in Commands, dist \in {x \in DistLevels(m) : x <= MatcherThreshold(m)} }
  \cup { [command |-> "NONE", distance |-> dist, best_template |-> <<m, "NONE">>] :
      dist \in {x \in DistLevels(m) : x > MatcherThreshold(m)} \cup {Inf} }
  \cup { [command |-> "NOISE", distance |-> dist, best_template |-> <<m, "NOISE">>] :
      dist \in DistLevels(m) }

\* known_snr values on each side of the 15 dB and 30 dB limits
SnrLevels == {10, 20, 40}

\* get_adaptive_weights
get_adaptive_weights(snr_db) ==
  IF snr_db > 30 THEN [mfcc_dtw |-> 60, lpc |-> 5, stats |-> 0]
  ELSE IF snr_db > 15 THEN [mfcc_dtw |-> 50, lpc |-> 5, stats |-> 0]
  ELSE [mfcc_dtw |-> 40, lpc |-> 5, stats |-> 0]

\* the weights of recognize: adaptive, or the default ensemble weights
SoftWeights(adaptive, snr) ==
  IF adaptive THEN get_adaptive_weights(snr)
  ELSE [mfcc_dtw |-> 40, mel |-> 35, stats |-> 0, lpc |-> 5]

\* the weights of recognize_voting
VotingWeights(adaptive, snr) ==
  IF adaptive THEN get_adaptive_weights(snr)
  ELSE [mfcc_dtw |-> 50, lpc |-> 10, stats |-> 0]

\* weights.get(method, default)
WeightGet(weights, m, default) ==
  IF m \in DOMAIN weights THEN weights[m] ELSE default

\* max(0, 1 - distance/threshold), in ConfUnit-ths
DistanceConf(dist, threshold) ==
  IF dist >= threshold THEN 0
  ELSE (threshold - dist) * (ConfUnit \div threshold)

\* recognize: `conf` of one method's vote
SoftConf(m, result) ==
  IF result.command \notin {"NONE", "NOISE"}
    THEN DistanceConf(result.distance, MatcherThreshold(m))
  ELSE IF result.command = "NOISE" THEN ConfUnit
  ELSE 0

\* a dict as the sequence of its (key, value) items in insertion order
DictHas(dict, k) == \E i \in 1..Len(dict) : dict[i].key = k
DictGet(dict, k, default) ==
  IF DictHas(dict, k)
    THEN dict[CHOOSE i \in 1..Len(dict) : dict[i].key = k].val
    ELSE default
\* dict[k] = dict.get(k, 0) + amount
DictAdd(dict, k, amount) ==
  IF DictHas(dict, k)
    THEN [i \in 1..Len(dict) |->
            IF dict[i].key = k THEN [key |-> k, val |-> dict[i].val + amount]
            ELSE dict[i]]
    ELSE Append(dict, [key |-> k, val |-> amount])

\* recognize: the loop accumulating command_scores and total_weight
RECURSIVE SoftAccumulate(_, _, _, _)
SoftAccumulate(methods, results, weights, acc) ==
  IF methods = <<>> THEN acc
  ELSE LET m == Head(methods)
           weight == WeightGet(weights, m, 10)
       IN SoftAccumulate(Tail(methods), results, weights,
            [scores |-> DictAdd(acc.scores, results[m].command,
                                weight * SoftConf(m, results[m])),
             total_weight |-> IF weight > 0 THEN acc.total_weight + weight
                              ELSE acc.total_weight])

\* a faulty comparison: every later label replaces the best one
ScoreBeatsAlways(score, max_score) == TRUE
\* `if score > max_score`
ScoreBeats(score, max_score) == score > max_score

\* `for cmd, score in dict.items(): if score > max_score: ...`
RECURSIVE FindBest(_, _)
FindBest(dict, best) ==
  IF dict = <<>> THEN best
  ELSE FindBest(Tail(dict),
                IF ScoreBeats(Head(dict).val, best.val) THEN Head(dict) ELSE best)

\* recognize: the method that voted for the winner with the highest weight
RECURSIVE WinnerMethod(_, _, _, _, _)
WinnerMethod(methods, results, weights, best_command, acc) ==
  IF methods = <<>> THEN acc
  ELSE LET m == Head(methods)
           w == WeightGet(weights, m, 10)
       IN WinnerMethod(Tail(methods), results, weights, best_command,
            IF results[m].command = best_command /\ w > acc.weight
              THEN [weight |-> w, method |-> m,
                    best_template |-> results[m].best_template]
              ELSE acc)

\* MultiMethodMatcher.recognize: the response
SoftResponse(methods, results, adaptive, snr) ==
  LET weights == SoftWeights(adaptive, snr)
      acc == SoftAccumulate(methods, results, weights,
                            [scores |-> <<>>, total_weight |-> 0])
      best == FindBest(acc.scores, [key |-> "NONE", val |-> -10 * ConfUnit])
      who == WinnerMethod(methods, results, weights, best.key,
                          [weight |-> -1, method |-> "ensemble",
                           best_template |-> <<>>])
  IN [command |-> best.key,
      conf_num |-> IF acc.total_weight > 0 THEN best.val ELSE 0,
      conf_den |-> IF acc.total_weight > 0 THEN acc.total_weight * ConfUnit ELSE 1,
      method |-> who.method,
      best_template |-> who.best_template]

\* recognize_voting: `if mfcc_conf < 0.6`
MfccUnsure(results) ==
  10 * DistanceConf(results["mfcc_dtw"].distance, MatcherThreshold("mfcc_dtw"))
    < 6 * ConfUnit

\* recognize_voting: the loop filling `votes`
RECURSIVE CountVotes(_, _, _, _)
CountVotes(methods, results, weights, votes) ==
  IF methods = <<>> THEN votes
  ELSE LET m == Head(methods)
           cmd == results[m].command
           weight == WeightGet(weights, m, 0)
           vetoed == IF m = "mel" /\ cmd = "NOISE"
                        /\ "mfcc_dtw" \in DOMAIN results /\ MfccUnsure(results)
                       THEN DictAdd(votes, "NOISE", 50)
                       ELSE votes
       IN CountVotes(Tail(methods), results, weights,
                     IF cmd # "NONE" THEN DictAdd(vetoed, cmd, weight) ELSE vetoed)

\* recognize_voting: total_possible_votes
RECURSIVE TotalPossibleVotes(_, _, _)
TotalPossibleVotes(keys, weights, results) ==
  IF keys = {} THEN 0
  ELSE LET k == CHOOSE x \in keys : TRUE
       IN (IF k \in DOMAIN results THEN weights[k] ELSE 0)
          + TotalPossibleVotes(keys \ {k}, weights, results)

\* MultiMethodMatcher.recognize_voting: the response
VotingResponse(methods, results, adaptive, snr) ==
  LET weights == VotingWeights(adaptive, snr)
      votes == CountVotes(methods, results, weights, <<>>)
      total == TotalPossibleVotes(DOMAIN weights, weights, results)
      best == FindBest(votes, [key |-> "NONE", val |-> -10])
  IN [command |-> best.key,
      conf_num |-> IF total > 0 THEN best.val ELSE 0,
      conf_den |-> IF total > 0 THEN total ELSE 1,
      method |-> "voting",
      best_template |-> <<>>]

NoResponse == [command |-> "NONE", conf_num |-> 0, conf_den |-> 1,
               method |-> "none", best_template |-> <<>>]

\* the results dicts of one call: per method of the matcher, in order, one
\* of the results that method can return
RECURSIVE ResultDicts(_)
ResultDicts(methods) ==
  IF methods = <<>> THEN { <<>> }
  ELSE { (Head(methods) :> r) @@ rest :
           r \in MethodResults(Head(methods)), rest \in ResultDicts(Tail(methods)) }

\* adaptive with a known_snr, or the fixed weights (snr stays 50.0)
Weightings == {<<TRUE, s>> : s \in SnrLevels} \cup {<<FALSE, 50>>}

\* the calls on a matcher built with `methods`
Calls(methods) ==
  { [results |-> results, adaptive |-> w[1], snr |-> w[2]] :
      results \in ResultDicts(methods), w \in Weightings }

\* a segment no method recognises, on the fixed weights
SilentCall ==
  [results |-> [m \in {"mfcc_dtw", "lpc"} |->
                  [command |-> "NONE", distance |-> Inf,
                   best_template |-> <<m, "NONE">>]],
   adaptive |-> FALSE, snr |-> 50]

\* MultiMethodMatcher.__init__(methods), and the audio of the next call
EnsembleInit(methods, call) ==
  /\ ens_methods = methods
  /\ ens_in = call
  /\ ens_ret = NoResponse
  /\ ens_op = "init"

\* MultiMethodMatcher.recognize(audio, adaptive, known_snr)
EnsembleRecognize ==
  /\ ens_ret' = SoftResponse(ens_methods, ens_in.results, ens_in.adaptive, ens_in.snr)
  /\ ens_op' = "recognize"
  /\ UNCHANGED <<ens_methods, ens_in>>
  /\ UNCHANGED notEnsemble

\* MultiMethodMatcher.recognize_voting(audio, adaptive, known_snr)
EnsembleRecognizeVoting ==
  /\ ens_ret' = VotingResponse(ens_methods, ens_in.results, ens_in.adaptive, ens_in.snr)
  /\ ens_op' = "recognize_voting"
  /\ UNCHANGED <<ens_methods, ens_in>>
  /\ UNCHANGED notEnsemble

NextEnsemble ==
  \/ EnsembleRecognize
  \/ EnsembleRecognizeVoting

\* ------------------------------------------------------------------------
\* VAD shared by the recognition thread and the server thread
\* (controller.py start_calibration_mode, _recognition_loop; vad.py)
\* ------------------------------------------------------------------------
\* calls of start_calibration_mode and chunks the model follows
MaxResets == 1
MaxRaceChunks == 8
\* bytes of the serial stream
MaxStream == 4

NoReturn == [kind |-> "-", state |-> SILENCE]

\* VAD(background_rms=...), both threads outside the VAD
RaceInit ==
  /\ rv_state = SILENCE
  /\ rv_buffer = 0
  /\ rv_silence_frames = 0
  /\ rv_speech_frames = 0
  /\ t_pc = "idle"
  /\ t_speech = FALSE
  /\ t_seg = 0
  /\ t_ret = NoReturn
  /\ x_pc = "idle"
  /\ n_resets = 0
  /\ n_race_chunks = 0

\* `return (self.state, None)`
ReturnNone ==
  /\ t_pc' = "idle"
  /\ t_ret' = [kind |-> "none", state |-> rv_state]

\* _recognition_loop takes a chunk and enters process_chunk: lines 61-65,
\* up to the test `self.state == VADState.SILENCE`
RaceBegin(is_speech) ==
  /\ t_pc = "idle"
  /\ n_race_chunks < MaxRaceChunks
  /\ n_race_chunks' = n_race_chunks + 1
  /\ t_speech' = is_speech
  /\ IF rv_state = SILENCE
       THEN IF is_speech THEN t_pc' = "l67" /\ UNCHANGED t_ret
            ELSE ReturnNone
       ELSE t_pc' = "l73" /\ UNCHANGED t_ret
  /\ UNCHANGED <<rv_state, rv_buffer, rv_silence_frames, rv_speech_frames, t_seg, x_pc,
                 n_resets>>
  /\ UNCHANGED notRace

\* the statement of process_chunk at line t_pc
RaceStep ==
  /\ t_pc \notin {"idle", "recognise"}
  /\ CASE t_pc = "l67" ->
            /\ rv_state' = RECORDING /\ t_pc' = "l68"
            /\ UNCHANGED <<rv_buffer, rv_silence_frames, rv_speech_frames, t_seg, t_ret>>
       [] t_pc = "l68" ->
            /\ rv_buffer' = 1 /\ t_pc' = "l69"
            /\ UNCHANGED <<rv_state, rv_silence_frames, rv_speech_frames, t_seg, t_ret>>
       [] t_pc = "l69" ->
            /\ rv_speech_frames' = 1 /\ t_pc' = "l70"
            /\ UNCHANGED <<rv_state, rv_buffer, rv_silence_frames, t_seg, t_ret>>
       [] t_pc = "l70" ->
            /\ rv_silence_frames' = 0 /\ ReturnNone
            /\ UNCHANGED <<rv_state, rv_buffer, rv_speech_frames, t_seg>>
       [] t_pc = "l73" ->
            /\ IF rv_state = RECORDING THEN t_pc' = "l74" /\ UNCHANGED t_ret
               ELSE ReturnNone
            /\ UNCHANGED <<rv_state, rv_buffer, rv_silence_frames, rv_speech_frames,
                           t_seg>>
       [] t_pc = "l74" ->
            /\ rv_buffer' = rv_buffer + 1 /\ t_pc' = "l75"
            /\ UNCHANGED <<rv_state, rv_silence_frames, rv_speech_frames, t_seg, t_ret>>
       [] t_pc = "l75" ->
            /\ rv_speech_frames' = rv_speech_frames + 1 /\ t_pc' = "l77"
            /\ UNCHANGED <<rv_state, rv_buffer, rv_silence_frames, t_seg, t_ret>>
       [] t_pc = "l77" ->
            /\ rv_silence_frames' = IF t_speech THEN 0 ELSE rv_silence_frames + 1
            /\ t_pc' = "l83"
            /\ UNCHANGED <<rv_state, rv_buffer, rv_speech_frames, t_seg, t_ret>>
       [] t_pc = "l83" ->
            /\ IF EndOfSpeech(rv_silence_frames, rv_speech_frames)
                 THEN t_pc' = "l87" /\ UNCHANGED t_ret
                 ELSE ReturnNone
            /\ UNCHANGED <<rv_state, rv_buffer, rv_silence_frames, rv_speech_frames,
                           t_seg>>
       [] t_pc = "l87" ->
            /\ t_pc' = IF LongEnough(rv_speech_frames) THEN "l88" ELSE "l94"
            /\ UNCHANGED <<rv_state, rv_buffer, rv_silence_frames, rv_speech_frames,
                           t_seg, t_ret>>
       [] t_pc = "l88" ->
            /\ rv_state' = PROCESSING /\ t_pc' = "l89"
            /\ UNCHANGED <<rv_buffer, rv_silence_frames, rv_speech_frames, t_seg, t_ret>>
       [] t_pc = "l89" ->
            \* np.concatenate of an empty list raises ValueError; the handler
            \* of _recognition_loop takes it and the loop goes on
            /\ IF rv_buffer = 0
                 THEN /\ t_pc' = "idle"
                      /\ t_ret' = [kind |-> "raise", state |-> rv_state]
                      /\ UNCHANGED t_seg
                 ELSE /\ t_seg' = rv_buffer /\ t_pc' = "l90"
                      /\ UNCHANGED t_ret
            /\ UNCHANGED <<rv_state, rv_buffer, rv_silence_frames, rv_speech_frames>>
       [] t_pc = "l90" ->
            /\ rv_buffer' = 0 /\ t_pc' = "l91"
            /\ UNCHANGED <<rv_state, rv_silence_frames, rv_speech_frames, t_seg, t_ret>>
       [] t_pc = "l91" ->
            \* `return (self.state, segment)`, then the test of the loop
            \* `state == VADState.PROCESSING and segment is not None`
            /\ t_ret' = [kind |-> "segment", state |-> rv_state]
            /\ t_pc' = IF rv_state = PROCESSING THEN "recognise" ELSE "idle"
            /\ UNCHANGED <<rv_state, rv_buffer, rv_silence_frames, rv_speech_frames,
                           t_seg>>
       [] t_pc = "l94" ->
            /\ rv_buffer' = 0 /\ t_pc' = "l95"
            /\ UNCHANGED <<rv_state, rv_silence_frames, rv_speech_frames, t_seg, t_ret>>
       [] t_pc = "l95" ->
            /\ rv_state' = SILENCE /\ ReturnNone
            /\ UNCHANGED <<rv_buffer, rv_silence_frames, rv_speech_frames, t_seg>>
  /\ UNCHANGED <<t_speech, x_pc, n_resets, n_race_chunks>>
  /\ UNCHANGED notRace

\* _recognition_loop after a segment: recognition, publication, and
\* `self._vad.reset()`
RaceLoopReset ==
  /\ t_pc = "recognise"
  /\ rv_state' = SILENCE
  /\ rv_buffer' = 0
  /\ rv_silence_frames' = 0
  /\ rv_speech_frames' = 0
  /\ t_pc' = "idle"
  /\ UNCHANGED <<t_speech, t_seg, t_ret, x_pc, n_resets, n_race_chunks>>
  /\ UNCHANGED notRace

\* start_calibration_mode in the server thread: the statement of VAD.reset
\* at line x_pc
ServerReset ==
  /\ CASE x_pc = "idle" ->
            /\ n_resets < MaxResets
            /\ n_resets' = n_resets + 1
            /\ rv_state' = SILENCE /\ x_pc' = "l108"
            /\ UNCHANGED <<rv_buffer, rv_silence_frames, rv_speech_frames>>
       [] x_pc = "l108" ->
            /\ rv_buffer' = 0 /\ x_pc' = "l109"
            /\ UNCHANGED <<rv_state, rv_silence_frames, rv_speech_frames, n_resets>>
       [] x_pc = "l109" ->
            /\ rv_silence_frames' = 0 /\ x_pc' = "l110"
            /\ UNCHANGED <<rv_state, rv_buffer, rv_speech_frames, n_resets>>
       [] x_pc = "l110" ->
            /\ rv_speech_frames' = 0 /\ x_pc' = "idle"
            /\ UNCHANGED <<rv_state, rv_buffer, rv_silence_frames, n_resets>>
  /\ UNCHANGED <<t_pc, t_speech, t_seg, t_ret, n_race_chunks>>
  /\ UNCHANGED notRace

NextRace ==
  \/ \E is_speech \in BOOLEAN : RaceBegin(is_speech)
  \/ RaceStep
  \/ RaceLoopReset
  \/ ServerReset

\* ------------------------------------------------------------------------
\* Serial line parsing (src/src/ecg/manager.py, src/src/ecg/adapter.py)
\* ------------------------------------------------------------------------
NL == "\n"
CR == "\r"
\* the characters of the stream: digits, a character no number contains, and
\* the two characters that end a line of Serial.println
Digits == {"1", "5"}
Chars == Digits \cup {"x", CR, NL}

\* every byte stream of up to n characters
RECURSIVE Streams(_)
Streams(n) ==
  IF n = 0 THEN {<<>>}
  ELSE Streams(n - 1) \cup {Append(s, c) : s \in {t \in Streams(n - 1) : Len(t) = n - 1}, c \in Chars}

\* str.split('\n'): the pieces between the newlines, at least one
RECURSIVE SplitLines(_)
SplitLines(s) ==
  IF s = <<>> THEN << <<>> >>
  ELSE LET rest == SplitLines(Tail(s))
       IN IF Head(s) = NL THEN << <<>> >> \o rest
          ELSE << <<Head(s)>> \o rest[1] >> \o Tail(rest)

\* str.strip(): white space removed at both ends
RECURSIVE StripLeft(_)
StripLeft(line) ==
  IF line # <<>> /\ Head(line) \in {CR, NL} THEN StripLeft(Tail(line)) ELSE line

RECURSIVE StripRight(_)
StripRight(line) ==
  IF line # <<>> /\ line[Len(line)] \in {CR, NL}
    THEN StripRight(SubSeq(line, 1, Len(line) - 1)) ELSE line

Strip(line) == StripRight(StripLeft(line))

\* float(line) returns a value rather than raising ValueError
ParsesAsFloat(line) == line # <<>> /\ \A i \in 1..Len(line) : line[i] \in Digits

DigitValue(c) == IF c = "1" THEN 1 ELSE 5

\* float(line), for a line that parses
RECURSIVE FloatOf(_)
FloatOf(line) ==
  IF line = <<>> THEN 0
  ELSE 10 * FloatOf(SubSeq(line, 1, Len(line) - 1)) + DigitValue(line[Len(line)])

\* `if 10 < val < 1000`
InBand(val) == 10 < val /\ val < 1000

\* `for line in lines[:-1]` of _read_samples: strip, skip the empty line and
\* the line that does not parse, keep the value within the band
RECURSIVE MgrParseLines(_)
MgrParseLines(lines) ==
  IF lines = <<>> THEN <<>>
  ELSE LET line == Strip(Head(lines))
       IN (IF ParsesAsFloat(line) /\ InBand(FloatOf(line)) THEN <<FloatOf(line)>> ELSE <<>>)
            \o MgrParseLines(Tail(lines))

\* `for line in lines` of _process_real_ecg: strip, skip the empty line and
\* the line that does not parse
RECURSIVE AdapterParseLines(_)
AdapterParseLines(lines) ==
  IF lines = <<>> THEN <<>>
  ELSE LET line == Strip(Head(lines))
       IN (IF ParsesAsFloat(line) THEN <<FloatOf(line)>> ELSE <<>>)
            \o AdapterParseLines(Tail(lines))

SerialInit(bytes) ==
  /\ stream = bytes
  /\ sp_pos = 0
  /\ sp_reader = "none"
  /\ m_serial_buffer = <<>>
  /\ sp_fed = <<>>

\* ECGManager._read_samples with k bytes waiting: the bytes join the buffer,
\* the complete lines are parsed, the unfinished line stays in the buffer
MgrReadSamples(k) ==
  /\ sp_reader \in {"none", "manager"}
  /\ k \in 1..(Len(stream) - sp_pos)
  /\ LET raw_data == SubSeq(stream, sp_pos + 1, sp_pos + k)
         lines == SplitLines(m_serial_buffer \o raw_data)
     IN /\ m_serial_buffer' = lines[Len(lines)]
        /\ sp_fed' = sp_fed \o MgrParseLines(SubSeq(lines, 1, Len(lines) - 1))
  /\ sp_pos' = sp_pos + k
  /\ sp_reader' = "manager"
  /\ UNCHANGED stream
  /\ UNCHANGED notSerial

\* The read of ECGAdapter._process_real_ecg with k bytes waiting: the bytes
\* are split into lines and every line that parses becomes a sample
AdapterReadSerial(k) ==
  /\ sp_reader \in {"none", "adapter"}
  /\ k \in 1..(Len(stream) - sp_pos)
  /\ LET raw_data_str == SubSeq(stream, sp_pos + 1, sp_pos + k)
         lines == SplitLines(raw_data_str)
     IN sp_fed' = sp_fed \o AdapterParseLines(lines)
  /\ sp_pos' = sp_pos + k
  /\ sp_reader' = "adapter"
  /\ UNCHANGED <<stream, m_serial_buffer>>
  /\ UNCHANGED notSerial

NextSerial ==
  \/ \E k \in 1..MaxStream : MgrReadSamples(k)
  \/ \E k \in 1..MaxStream : AdapterReadSerial(k)

\* ------------------------------------------------------------------------
\* EventBus.reset_instance (src/src/event_bus.py)
\* ------------------------------------------------------------------------
\* reset_instance calls, objects, and subscribe / publish calls per object
MaxResetCalls == 2
MaxResetObjects == 3
MaxResetUses == 2

\* class EventBus before the first construction
ResetInit ==
  /\ rs_lock = "free"
  /\ rs_instance = 0
  /\ rs_objects = 0
  /\ rs_running = FALSE
  /\ rs_thread = FALSE
  /\ rs_subscribers = 0
  /\ rs_queue = 0
  /\ rs_pc = "idle"
  /\ rs_calls = 0

\* EventBus(): __new__ under cls._lock, then __init__ on a new object
ResetConstruct ==
  /\ rs_lock = "free"
  /\ rs_objects < MaxResetObjects
  /\ IF rs_instance = 0
       THEN /\ rs_instance' = rs_objects + 1
            /\ rs_objects' = rs_objects + 1
            /\ rs_running' = FALSE
            /\ rs_thread' = FALSE
            /\ rs_subscribers' = 0
            /\ rs_queue' = 0
       ELSE UNCHANGED <<rs_instance, rs_objects, rs_running, rs_thread, rs_subscribers,
                        rs_queue>>
  /\ UNCHANGED <<rs_lock, rs_pc, rs_calls>>
  /\ UNCHANGED notReset

\* EventBus.subscribe: `with self._lock`, which is the lock of the class
ResetSubscribe ==
  /\ rs_instance # 0
  /\ rs_lock = "free"
  /\ rs_subscribers < MaxResetUses
  /\ rs_subscribers' = rs_subscribers + 1
  /\ UNCHANGED <<rs_lock, rs_instance, rs_objects, rs_running, rs_thread, rs_queue,
                 rs_pc, rs_calls>>
  /\ UNCHANGED notReset

\* EventBus.publish
ResetPublish ==
  /\ rs_instance # 0
  /\ rs_queue < MaxResetUses
  /\ rs_queue' = rs_queue + 1
  /\ UNCHANGED <<rs_lock, rs_instance, rs_objects, rs_running, rs_thread,
                 rs_subscribers, rs_pc, rs_calls>>
  /\ UNCHANGED notReset

\* EventBus.start
ResetStart ==
  /\ rs_instance # 0
  /\ ~rs_running
  /\ rs_running' = TRUE
  /\ rs_thread' = TRUE
  /\ UNCHANGED <<rs_lock, rs_instance, rs_objects, rs_subscribers, rs_queue, rs_pc,
                 rs_calls>>
  /\ UNCHANGED notReset

\* The dispatcher thread: it takes an event and dispatches it under
\* self._lock, or finds _running false and ends
ResetDispatcher ==
  /\ rs_thread
  /\ IF rs_running
       THEN /\ rs_queue > 0
            /\ rs_lock = "free"
            /\ rs_queue' = rs_queue - 1
            /\ UNCHANGED rs_thread
       ELSE /\ rs_thread' = FALSE
            /\ UNCHANGED rs_queue
  /\ UNCHANGED <<rs_lock, rs_instance, rs_objects, rs_running, rs_subscribers, rs_pc,
                 rs_calls>>
  /\ UNCHANGED notReset

\* reset_instance: `with cls._lock:` entered
ResetInstanceBegin ==
  /\ rs_pc = "idle"
  /\ rs_calls < MaxResetCalls
  /\ rs_lock = "free"
  /\ rs_lock' = "reset_instance"
  /\ rs_pc' = "test"
  /\ rs_calls' = rs_calls + 1
  /\ UNCHANGED <<rs_instance, rs_objects, rs_running, rs_thread, rs_subscribers,
                 rs_queue>>
  /\ UNCHANGED notReset

\* reset_instance inside `with cls._lock:`, one statement at a time:
\* the test of _instance, stop() up to the join and the join with its
\* timeout, clear() entering `with self._lock:` and emptying the queue,
\* `cls._instance = None` and the release of the lock
ResetInstanceStep ==
  /\ rs_pc # "idle"
  /\ CASE rs_pc = "test" ->
            /\ rs_pc' = IF rs_instance # 0 THEN "stop" ELSE "unset"
            /\ UNCHANGED <<rs_lock, rs_instance, rs_running, rs_thread, rs_subscribers,
                           rs_queue>>
       [] rs_pc = "stop" ->
            IF ~rs_running
              THEN /\ rs_pc' = "clear"
                   /\ UNCHANGED <<rs_lock, rs_instance, rs_running, rs_thread,
                                  rs_subscribers, rs_queue>>
              ELSE /\ rs_running' = FALSE
                   /\ rs_queue' = rs_queue + 1
                   /\ rs_pc' = "join"
                   /\ UNCHANGED <<rs_lock, rs_instance, rs_thread, rs_subscribers>>
       [] rs_pc = "join" ->
            /\ rs_pc' = "clear"
            /\ UNCHANGED <<rs_lock, rs_instance, rs_running, rs_thread, rs_subscribers,
                           rs_queue>>
       [] rs_pc = "clear" ->
            /\ rs_lock = "free"
            /\ rs_subscribers' = 0
            /\ rs_pc' = "drain"
            /\ UNCHANGED <<rs_lock, rs_instance, rs_running, rs_thread, rs_queue>>
       [] rs_pc = "drain" ->
            /\ rs_queue' = 0
            /\ rs_pc' = "unset"
            /\ UNCHANGED <<rs_lock, rs_instance, rs_running, rs_thread, rs_subscribers>>
       [] rs_pc = "unset" ->
            /\ rs_instance' = 0
            /\ rs_lock' = "free"
            /\ rs_pc' = "idle"
            /\ UNCHANGED <<rs_running, rs_thread, rs_subscribers, rs_queue>>
  /\ UNCHANGED <<rs_objects, rs_calls>>
  /\ UNCHANGED notReset

NextReset ==
  \/ ResetConstruct
  \/ ResetSubscribe
  \/ ResetPublish
  \/ ResetStart
  \/ ResetDispatcher
  \/ ResetInstanceBegin
  \/ ResetInstanceStep

\* ------------------------------------------------------------------------
\* Calibration mode between two threads (src/src/audio/controller.py)
\* ------------------------------------------------------------------------
\* segments and server calls up to which the model runs
MaxCalSegments == 2
MaxCalCalls == 2
\* what recognize returns for the segments
CalibResults == {"JUMP", "NONE"}

\* templates[command] of a matcher: the key must be present
HasTemplates(tpl, command) == command \in DOMAIN tpl

\* TemplateMatcher.add_template on one matcher: creates the key when missing
AddTemplateTo(tpl, command) ==
  IF HasTemplates(tpl, command)
    THEN [tpl EXCEPT ![command] = @ + 1]
    ELSE [k \in (DOMAIN tpl) \cup {command} |-> IF k = command THEN 1 ELSE tpl[k]]

\* _clear_command_templates on one matcher: `if command in matcher.templates`
ClearTemplatesOf(tpl, command) ==
  IF HasTemplates(tpl, command) THEN [tpl EXCEPT ![command] = 0] ELSE tpl

\* MultiMethodMatcher.add_template as the first matcher sees it: it keeps the
\* template unless its own feature extraction raises
FirstMatcherAdds(cal) == cal # "add_fails_first"
\* MultiMethodMatcher.add_template returns without an exception
AddReturns(cal) == cal \notin {"add_fails_first", "add_fails_last"}

\* EventType.<name> evaluates without AttributeError
TypeExists(name) == name \in EventTypeMembers

\* VoiceController.__init__(freedom_mode=fm): _calibration_target = None,
\* _calibration_start_time = 0.0; the templates are those of load_templates
CalibInit(fm) ==
  /\ cm_freedom = fm
  /\ cm_target = NoTarget
  /\ cm_expired = TRUE
  /\ cm_templates = [k \in Commands |-> 1]
  /\ cm_pc = "idle"
  /\ cm_cmd = "NONE"
  /\ cm_cal = "ok"
  /\ cm_xpc = "idle"
  /\ cm_events = <<>>
  /\ cm_cleared = {}
  /\ cm_added = {}
  /\ cm_given = {}
  /\ cm_stops = 0
  /\ cm_segments = 0
  /\ cm_calls = 0

\* time passes: more than 10 s since _calibration_start_time
CalibExpire ==
  /\ ~cm_expired
  /\ cm_expired' = TRUE
  /\ UNCHANGED <<cm_freedom, cm_target, cm_templates, cm_pc, cm_cmd, cm_cal, cm_xpc,
                 cm_events, cm_cleared, cm_added, cm_given, cm_stops, cm_segments,
                 cm_calls>>
  /\ UNCHANGED notCalib

\* the server thread enters start_calibration_mode(command) and assigns the
\* target
CalibStartBegin(command) ==
  /\ cm_xpc = "idle"
  /\ cm_calls < MaxCalCalls
  /\ cm_calls' = cm_calls + 1
  /\ cm_target' = command
  /\ cm_given' = cm_given \cup {command}
  /\ cm_xpc' = "226"
  /\ UNCHANGED <<cm_freedom, cm_expired, cm_templates, cm_pc, cm_cmd, cm_cal, cm_events,
                 cm_cleared, cm_added, cm_stops, cm_segments>>
  /\ UNCHANGED notCalib

\* the server thread enters stop_calibration_mode
CalibStopBegin ==
  /\ cm_xpc = "idle"
  /\ cm_calls < MaxCalCalls
  /\ cm_calls' = cm_calls + 1
  /\ cm_stops' = cm_stops + 1
  /\ cm_xpc' = "233"
  /\ UNCHANGED <<cm_freedom, cm_target, cm_expired, cm_templates, cm_pc, cm_cmd, cm_cal,
                 cm_events, cm_cleared, cm_added, cm_given, cm_segments>>
  /\ UNCHANGED notCalib

\* the next statement of the server thread: the start time (226), the test
\* of stop_calibration_mode (233) and its assignment (235)
CalibServerStep ==
  /\ cm_xpc # "idle"
  /\ CASE cm_xpc = "226" ->
            /\ cm_expired' = FALSE
            /\ cm_xpc' = "idle"
            /\ UNCHANGED cm_target
       [] cm_xpc = "233" ->
            /\ cm_xpc' = IF cm_target # NoTarget THEN "235" ELSE "idle"
            /\ UNCHANGED <<cm_target, cm_expired>>
       [] cm_xpc = "235" ->
            /\ cm_target' = NoTarget
            /\ cm_xpc' = "idle"
            /\ UNCHANGED cm_expired
  /\ UNCHANGED <<cm_freedom, cm_templates, cm_pc, cm_cmd, cm_cal, cm_events, cm_cleared,
                 cm_added, cm_given, cm_stops, cm_segments, cm_calls>>
  /\ UNCHANGED notCalib

\* the recognition thread has a segment recognised as cmd and reaches the
\* calibration block
CalibSegment(cmd, cal) ==
  /\ cm_pc = "idle"
  /\ cm_segments < MaxCalSegments
  /\ cm_segments' = cm_segments + 1
  /\ cm_cmd' = cmd
  /\ cm_cal' = cal
  /\ cm_pc' = "323"
  /\ UNCHANGED <<cm_freedom, cm_target, cm_expired, cm_templates, cm_xpc, cm_events,
                 cm_cleared, cm_added, cm_given, cm_stops, cm_calls>>
  /\ UNCHANGED notCalib

\* the event a publish statement of the block builds from the target it
\* reads at that moment
CalibEvent(type, command) == [type |-> type, command |-> command]

\* a publish statement of the block: the event is published and the thread
\* goes on, or EventType has no such member and the thread goes to the
\* handler
CalibPublish(name, command, then, handler) ==
  IF TypeExists(name)
    THEN /\ cm_events' = Append(cm_events, CalibEvent(name, command))
         /\ cm_pc' = then
    ELSE /\ cm_pc' = handler
         /\ UNCHANGED cm_events

\* the next statement of the recognition thread in the calibration block;
\* every statement reads self._calibration_target anew.  An exception outside
\* the inner try blocks ends the turn in the handler of the loop.
CalibLoopStep ==
  /\ cm_pc # "idle"
  /\ CASE cm_pc = "323" ->
            /\ cm_pc' = IF cm_target # NoTarget THEN "325" ELSE "idle"
            /\ UNCHANGED <<cm_target, cm_templates, cm_events, cm_cleared, cm_added>>
       [] cm_pc = "325" ->
            /\ cm_pc' = IF cm_expired THEN "327"
                        ELSE IF cm_freedom THEN "338" ELSE "401"
            /\ UNCHANGED <<cm_target, cm_templates, cm_events, cm_cleared, cm_added>>
       [] cm_pc = "327" ->
            /\ CalibPublish("CALIBRATION_RESULT", cm_target, "331", "idle")
            /\ UNCHANGED <<cm_target, cm_templates, cm_cleared, cm_added>>
       [] cm_pc \in {"331", "378", "413", "420"} ->
            /\ cm_target' = NoTarget
            /\ cm_pc' = "idle"
            /\ UNCHANGED <<cm_templates, cm_events, cm_cleared, cm_added>>
       [] cm_pc = "338" ->
            /\ cm_pc' = IF cm_cal # "invalid" THEN "343" ELSE "390"
            /\ UNCHANGED <<cm_target, cm_templates, cm_events, cm_cleared, cm_added>>
       [] cm_pc = "343" ->
            /\ cm_templates' = ClearTemplatesOf(cm_templates, cm_target)
            /\ cm_cleared' = cm_cleared \cup {cm_target}
            /\ cm_pc' = "346"
            /\ UNCHANGED <<cm_target, cm_events, cm_added>>
       [] cm_pc = "346" ->
            /\ cm_templates' = IF FirstMatcherAdds(cm_cal)
                                 THEN AddTemplateTo(cm_templates, cm_target)
                                 ELSE cm_templates
            /\ cm_added' = cm_added \cup {cm_target}
            /\ cm_pc' = IF AddReturns(cm_cal) THEN "354" ELSE "382"
            /\ UNCHANGED <<cm_target, cm_events, cm_cleared>>
       [] cm_pc = "354" ->
            /\ CalibPublish("PLAYBACK_START", cm_target, "363", "382")
            /\ UNCHANGED <<cm_target, cm_templates, cm_cleared, cm_added>>
       [] cm_pc = "363" ->
            /\ CalibPublish("PLAYBACK_COMPLETE", cm_target, "369", "382")
            /\ UNCHANGED <<cm_target, cm_templates, cm_cleared, cm_added>>
       [] cm_pc = "369" ->
            /\ CalibPublish("CALIBRATION_RESULT", cm_target, "378", "382")
            /\ UNCHANGED <<cm_target, cm_templates, cm_cleared, cm_added>>
       [] cm_pc \in {"382", "390"} ->
            /\ CalibPublish("CALIBRATION_RESULT", cm_target, "idle", "idle")
            /\ UNCHANGED <<cm_target, cm_templates, cm_cleared, cm_added>>
       [] cm_pc = "401" ->
            /\ cm_pc' = IF cm_cmd = cm_target THEN "405" ELSE "idle"
            /\ UNCHANGED <<cm_target, cm_templates, cm_events, cm_cleared, cm_added>>
       [] cm_pc = "405" ->
            /\ cm_templates' = IF FirstMatcherAdds(cm_cal)
                                 THEN AddTemplateTo(cm_templates, cm_cmd)
                                 ELSE cm_templates
            /\ cm_added' = cm_added \cup {cm_cmd}
            /\ cm_pc' = IF AddReturns(cm_cal) THEN "409" ELSE "416"
            /\ UNCHANGED <<cm_target, cm_events, cm_cleared>>
       [] cm_pc = "409" ->
            /\ CalibPublish("CALIBRATION_RESULT", cm_cmd, "413", "416")
            /\ UNCHANGED <<cm_target, cm_templates, cm_cleared, cm_added>>
       [] cm_pc = "416" ->
            /\ CalibPublish("CALIBRATION_RESULT", cm_target, "420", "idle")
            /\ UNCHANGED <<cm_target, cm_templates, cm_cleared, cm_added>>
  /\ UNCHANGED <<cm_freedom, cm_expired, cm_cmd, cm_cal, cm_xpc, cm_given, cm_stops,
                 cm_segments, cm_calls>>
  /\ UNCHANGED notCalib

NextCalib ==
  \/ CalibExpire
  \/ \E command \in Commands : CalibStartBegin(command)
  \/ CalibStopBegin
  \/ CalibServerStep
  \/ \E cmd \in CalibResults, cal \in CalOutcomes : CalibSegment(cmd, cal)
  \/ CalibLoopStep

\* ------------------------------------------------------------------------
\* Template stores of the matchers (src/src/audio/recognizers.py)
\* ------------------------------------------------------------------------
\* calls up to which the model runs
MaxStoreCalls == 3
\* the filename argument of add_template: None or a name
Filenames == {"None", "a.wav"}
\* the method whose _extract_features raises in a call, or "none"
Failures == {"none"} \cup Methods

\* a matcher after __init__: templates = {}, template_names = {},
\* noise_templates = []
NewMatcher == [templates |-> <<>>, names |-> <<>>, noise |-> 0]

\* template_names[command].append(filename or "unknown"), the key created
\* when missing
AppendName(names, command, filename) ==
  LET name == IF filename = "None" THEN "unknown" ELSE filename
  IN IF command \in DOMAIN names
       THEN [names EXCEPT ![command] = Append(@, name)]
       ELSE [k \in (DOMAIN names) \cup {command} |->
               IF k = command THEN <<name>> ELSE names[k]]

\* TemplateMatcher.add_template and FastLPCMatcher.add_template once the
\* features are extracted
MatcherAddTemplate(mt, command, filename) ==
  [mt EXCEPT !.templates = AddTemplateTo(mt.templates, command),
             !.names = AppendName(mt.names, command, filename)]

\* TemplateMatcher.add_noise_template once the features are extracted
MatcherAddNoise(mt) == [mt EXCEPT !.noise = @ + 1]

\* _clear_command_templates on one matcher
MatcherClear(mt, command) ==
  IF HasTemplates(mt.templates, command)
    THEN [mt EXCEPT !.templates = ClearTemplatesOf(mt.templates, command),
                    !.names = [mt.names EXCEPT ![command] = <<>>]]
    ELSE mt

\* `for matcher in self.matchers.values()`: the matchers the loop has
\* finished with when the extraction of `fails` raises
ReachedMatchers(fails) ==
  {DefaultMethods[i] : i \in {j \in 1..Len(DefaultMethods) :
                                \A k \in 1..j : DefaultMethods[k] # fails}}

\* MultiMethodMatcher.get_noise_template_count: the count of the first matcher
GetNoiseTemplateCount(matchers) == matchers[DefaultMethods[1]].noise

\* MultiMethodMatcher.__init__
StoreInit ==
  /\ st_matchers = [m \in Methods |-> NewMatcher]
  /\ st_raised = FALSE
  /\ st_op = "init"
  /\ st_calls = 0

\* MultiMethodMatcher.add_template(command, audio, filename)
StoreAddTemplate(command, filename, fails) ==
  /\ st_calls < MaxStoreCalls
  /\ st_calls' = st_calls + 1
  /\ st_matchers' = [m \in Methods |->
                       IF m \in ReachedMatchers(fails)
                         THEN MatcherAddTemplate(st_matchers[m], command, filename)
                         ELSE st_matchers[m]]
  /\ st_raised' = (st_raised \/ fails # "none")
  /\ st_op' = "add_template"
  /\ UNCHANGED notStore

\* MultiMethodMatcher.add_noise_template(audio)
StoreAddNoise(fails) ==
  /\ st_calls < MaxStoreCalls
  /\ st_calls' = st_calls + 1
  /\ st_matchers' = [m \in Methods |->
                       IF m \in ReachedMatchers(fails)
                         THEN MatcherAddNoise(st_matchers[m])
                         ELSE st_matchers[m]]
  /\ st_raised' = (st_raised \/ fails # "none")
  /\ st_op' = "add_noise_template"
  /\ UNCHANGED notStore

\* VoiceController._clear_command_templates(command)
StoreClear(command) ==
  /\ st_calls < MaxStoreCalls
  /\ st_calls' = st_calls + 1
  /\ st_matchers' = [m \in Methods |-> MatcherClear(st_matchers[m], command)]
  /\ st_op' = "clear"
  /\ UNCHANGED st_raised
  /\ UNCHANGED notStore

NextStore ==
  \/ \E command \in Commands, filename \in Filenames, fails \in Failures :
       StoreAddTemplate(command, filename, fails)
  \/ \E fails \in Failures : StoreAddNoise(fails)
  \/ \E command \in Commands : StoreClear(command)

\* ------------------------------------------------------------------------
\* Specifications
\* ------------------------------------------------------------------------
Init == BusInit /\ VadInit /\ MatchInit /\ AdapterInit /\ MgrInit
          /\ VoiceInit(FALSE)
          /\ SingletonInit
          /\ RingInit
          /\ EnsembleInit(DefaultMethods, SilentCall)
          /\ RaceInit
          /\ SerialInit(<<>>)
          /\ ResetInit
          /\ CalibInit(FALSE)
          /\ StoreInit

\* the voice controller constructed in either mode
InitVoice == BusInit /\ VadInit /\ MatchInit /\ AdapterInit /\ MgrInit
               /\ \E fm \in BOOLEAN : VoiceInit(fm)
               /\ SingletonInit
               /\ RingInit
               /\ EnsembleInit(DefaultMethods, SilentCall)
               /\ RaceInit
               /\ SerialInit(<<>>)
               /\ ResetInit
               /\ CalibInit(FALSE)
               /\ StoreInit

\* the matcher built with either method list, and every call on it
InitEnsemble == BusInit /\ VadInit /\ MatchInit /\ AdapterInit /\ MgrInit
                  /\ VoiceInit(FALSE)
                  /\ SingletonInit
                  /\ RingInit
                  /\ \E ms \in MethodLists : \E call \in Calls(ms) : EnsembleInit(ms, call)
                  /\ RaceInit
                  /\ SerialInit(<<>>)
                  /\ ResetInit
                  /\ CalibInit(FALSE)
                  /\ StoreInit

\* every byte stream the serial port may carry
InitSerial == BusInit /\ VadInit /\ MatchInit /\ AdapterInit /\ MgrInit
                /\ VoiceInit(FALSE)
                /\ SingletonInit
                /\ RingInit
                /\ EnsembleInit(DefaultMethods, SilentCall)
                /\ RaceInit
                /\ \E bytes \in Streams(MaxStream) : SerialInit(bytes)
                /\ ResetInit
                /\ CalibInit(FALSE)
                /\ StoreInit

\* the controller constructed in either mode, for the calibration threads
InitCalib == BusInit /\ VadInit /\ MatchInit /\ AdapterInit /\ MgrInit
               /\ VoiceInit(FALSE)
               /\ SingletonInit
               /\ RingInit
               /\ EnsembleInit(DefaultMethods, SilentCall)
               /\ RaceInit
               /\ SerialInit(<<>>)
               /\ ResetInit
               /\ \E fm \in BOOLEAN : CalibInit(fm)
               /\ StoreInit

SpecBus == Init /\ [][NextBus]_vars

\* the dispatcher thread is scheduled: each of its steps is eventually taken
SpecBusFair == Init /\ [][NextBus]_vars /\ WF_vars(DispatcherStep)

SpecVAD == Init /\ [][NextVAD]_vars

SpecMatch == Init /\ [][NextMatch]_vars

SpecEcgDetect == Init /\ [][NextEcgDetect]_vars

SpecEcgMode == Init /\ [][NextEcgMode]_vars

SpecEcgEvents == Init /\ [][NextEcgEvents]_vars

SpecVoice == InitVoice /\ [][NextVoice]_vars

\* the recognition thread keeps taking turns and the clock keeps running;
\* whether a chunk is loud is up to the speaker
SpecVoiceFair == InitVoice /\ [][NextVoice]_vars
                   /\ WF_vars(QuietTurn) /\ WF_vars(TimePasses)

SpecSingleton == Init /\ [][NextSingleton]_vars

SpecRing == Init /\ [][NextRing]_vars

SpecEnsemble == InitEnsemble /\ [][NextEnsemble]_vars

SpecRace == Init /\ [][NextRace]_vars

SpecSerial == InitSerial /\ [][NextSerial]_vars

SpecReset == Init /\ [][NextReset]_vars

\* the thread that called reset_instance is scheduled
SpecResetFair == Init /\ [][NextReset]_vars /\ WF_vars(ResetInstanceStep)

SpecCalib == InitCalib /\ [][NextCalib]_vars

SpecStore == Init /\ [][NextStore]_vars

\* ------------------------------------------------------------------------
\* Event bus: properties
\* ------------------------------------------------------------------------
DeliveredIdx == 1..Len(delivered)

\* every subscription in the snapshot taken for event e has been invoked with e
DeliveredToAll(e) ==
  /\ e \in dispatched
  /\ \A k \in 1..Len(snap_of[e]) :
       \E i \in DeliveredIdx :
         /\ delivered[i].id = e
         /\ delivered[i].slot = k
         /\ delivered[i].cb = snap_of[e][k]

\* C1: per-type FIFO.  Event ids follow the order of the publish() calls; a
\* callback is never invoked with a later event of a type before an earlier
\* event of the same type.
C1_PerTypeFIFO ==
  \A i, j \in DeliveredIdx :
    (i < j /\ delivered[i].cb = delivered[j].cb /\ delivered[i].type = delivered[j].type)
      => delivered[i].id <= delivered[j].id

\* C1 witness: one callback has received two events of one type
C1_Witness ==
  \E i, j \in DeliveredIdx :
    /\ i < j
    /\ delivered[i].cb = delivered[j].cb
    /\ delivered[i].type = delivered[j].type
    /\ delivered[i].id < delivered[j].id

\* no event is handed twice to the same subscription
AtMostOncePerSubscription ==
  \A i, j \in DeliveredIdx :
    (delivered[i].id = delivered[j].id /\ delivered[i].id > 0
       /\ delivered[i].slot = delivered[j].slot) => i = j

\* every event published so far has reached every subscription of its type
AllPublishedDelivered == \A e \in 1..next_id : DeliveredToAll(e)

\* C2: while the bus is started and has not been stopped, every published
\* event is eventually delivered to each subscription of its type (the bus
\* catches up with its publishers again and again; deliveries are never
\* undone), and no event is ever delivered twice to the same subscription.
C2_ExactlyOnce ==
  /\ []AtMostOncePerSubscription
  /\ []<>(ever_stopped \/ ~bus_running \/ AllPublishedDelivered)

\* C2 witness: on a bus that was never stopped, the second of two published
\* events has reached every subscriber of its type
C2_Witness ==
  /\ ~ever_stopped
  /\ next_id >= 2
  /\ DeliveredToAll(2)
  /\ Len(snap_of[2]) >= 1

\* C3: when the dispatcher thread has exited, every event published before
\* the stop() call has been dispatched.
C3_StopFlushesQueue ==
  d_pc = "exited" => \A e \in 1..pub_at_stop : e \in dispatched

\* ------------------------------------------------------------------------
\* ECG: properties
\* ------------------------------------------------------------------------
\* consecutive entries of a peak history are at least 0.25 * FS samples apart
QuarterSecondApart(hist) ==
  \A i \in 2..Len(hist) : 100 * (hist[i] - hist[i - 1]) >= 25 * FS

\* C7: refractory period.  Any two consecutive confirmed R peaks are at least
\* 0.25 s (0.25 * FS samples) apart in sample index, in the ECGAdapter and in
\* the ECGManager, for every sample stream and every batching of it.
C7_RefractoryPeriod ==
  /\ QuarterSecondApart(peak_indices_history)
  /\ QuarterSecondApart(peak_history)

\* C7 witness: the adapter has confirmed two peaks as close together as the
\* refractory period lets them be
C7_Witness ==
  /\ Len(peak_indices_history) >= 2
  /\ peak_indices_history[2] - peak_indices_history[1] = REFRACTORY_PERIOD + 1

\* the manager has confirmed two peaks as close together as its refractory
\* window lets them be
MgrTwoPeaks ==
  /\ Len(peak_history) >= 2
  /\ peak_history[2] - peak_history[1] = refractory_samples + 1

\* C8: start() returns with the processing thread running whatever the
\* hardware did; the adapter is in REAL exactly when the port was opened
\* (the initialisation ran to its end and ser holds the open port), and in
\* FALLBACK otherwise.
C8_StartNeverRaises ==
  a_op = "start" =>
    /\ a_running
    /\ a_thread = "thread"
    /\ (~use_fallback) <=> (init_result = "ok")
    /\ (~use_fallback) <=> (ser = "open")

\* C8 witness: start() has returned after the port could not be opened
C8_Witness ==
  /\ a_op = "start"
  /\ init_result = "open_failed"
  /\ use_fallback
  /\ a_running

\* start() has returned in REAL
StartedReal == a_op = "start" /\ init_result = "ok" /\ ~use_fallback /\ ser = "open"

\* C9: a turn of the processing loop in REAL that finds more than
\* no_signal_timeout seconds gone since the last confirmed peak, and confirms
\* no peak itself, switches to FALLBACK, whatever the serial line delivered.
C9_NoSignalTimeout ==
  [][ ( /\ \E input \in ModeReads : LoopReal(input)
        /\ ser = "open"
        /\ now - last_peak_time > no_signal_timeout
        /\ last_peak_time' = last_peak_time )
      => use_fallback' ]_vars

\* the same for a silent line only
NoSignalTimeoutOnSilence ==
  [][ ( /\ LoopReal(SilentRead)
        /\ ser = "open"
        /\ now - last_peak_time > no_signal_timeout )
      => use_fallback' ]_vars

\* the timeout has passed and the adapter has switched on a silent line
SwitchedOnSilence ==
  /\ a_op = "loop_real"
  /\ use_fallback
  /\ ser = "open"
  /\ hardware_available = FALSE
  /\ now - last_peak_time > no_signal_timeout

\* what a turn of the loop in FALLBACK does once an open has been attempted,
\* and that it generates the synthetic peak that is due
RetryOutcome ==
  /\ last_attempt_time' = now
  /\ (init_result' = "ok") => (~use_fallback' /\ ser' = "open")
  /\ (init_result' # "ok") => (use_fallback' /\ last_retry_time' = now)

SyntheticPeakWhenDue ==
  (now - last_fallback_peak_time >= fallback_interval_sec) =>
    /\ Len(a_published') >= 1
    /\ a_published'[1].type = ECG_PEAK
    /\ a_published'[1].value = FALLBACK_VALUE

\* C10 as stated: in FALLBACK the open is attempted once retry_interval
\* seconds have passed since the last attempt (and not before); a success
\* re-enters REAL, a failure stays in FALLBACK and restarts the retry timer;
\* synthetic peaks keep being generated.
C10_RetrySinceLastAttempt ==
  [][ (\E outcome \in InitOutcomes : LoopFallback(outcome)) =>
        /\ (now - last_attempt_time >= retry_interval) => RetryOutcome
        /\ (now - last_attempt_time < retry_interval) =>
             (use_fallback' /\ last_attempt_time' = last_attempt_time)
        /\ SyntheticPeakWhenDue ]_vars

\* C10, amended: in FALLBACK the open is attempted once retry_interval seconds
\* have passed since the retry timer was restarted, by the last attempt or by
\* the read error that sent the adapter to FALLBACK (and not before); a
\* success re-enters REAL, a failure stays in FALLBACK and restarts the retry
\* timer; synthetic peaks keep being generated.
C10_FallbackRetry ==
  [][ (\E outcome \in InitOutcomes : LoopFallback(outcome)) =>
        /\ (now - last_retry_time >= retry_interval) => RetryOutcome
        /\ (now - last_retry_time < retry_interval) =>
             (use_fallback' /\ last_attempt_time' = last_attempt_time)
        /\ SyntheticPeakWhenDue ]_vars

\* C10 witness: a turn in FALLBACK has generated a synthetic peak and retried
\* the port in vain
C10_Witness ==
  /\ a_op = "loop_fallback"
  /\ use_fallback
  /\ init_result # "ok"
  /\ last_attempt_time = now
  /\ last_retry_time = now
  /\ now >= retry_interval
  /\ Len(a_published) = 2

\* a retry has brought the adapter back to REAL
RetriedIntoReal ==
  /\ a_op = "loop_fallback"
  /\ ~use_fallback
  /\ init_result = "ok"
  /\ last_attempt_time = now
  /\ now >= retry_interval

\* ------------------------------------------------------------------------
\* Voice controller: properties
\* ------------------------------------------------------------------------
\* C11: after a turn of the recognition loop in which the VAD emitted a
\* segment, the VAD is back in SILENCE with its buffer and counters cleared,
\* whether recognition returned or raised.
C11_VadResetAfterSegment ==
  (vc_op = "turn" /\ vc_turn.segment) => vc_vad = ResetVad(vc_vad)

\* the reset does happen after every segment whose turn ends without an
\* exception
VadResetAfterRecognisedSegment ==
  (vc_op = "turn" /\ vc_turn.segment /\ ~vc_turn.error) => vc_vad = ResetVad(vc_vad)

\* after a raising recognition the VAD is left in PROCESSING
VadStuckAfterRaise ==
  vc_op = "turn" /\ vc_turn.segment /\ vc_turn.outcome = "raise"
    /\ vc_vad.state = PROCESSING

\* the number of events of a type among the events of the last operation
PublishedCount(type) ==
  Cardinality({i \in 1..Len(vc_published) : vc_published[i].type = type})

\* exactly one of VOICE_COMMAND and VOICE_NOISE was published for the segment
\* of the last turn, VOICE_COMMAND exactly for a command that is neither NONE
\* nor NOISE, and exactly then its action went on the polling queue
OneVoiceEvent ==
  /\ PublishedCount(VOICE_COMMAND) + PublishedCount(VOICE_NOISE) = 1
  /\ PublishedCount(VOICE_COMMAND) = 1 <=> vc_turn.outcome \notin {"NONE", "NOISE"}
  /\ vc_turn.queued # "None" <=> PublishedCount(VOICE_COMMAND) = 1
  /\ vc_turn.queued # "None" =>
       /\ command_queue # <<>>
       /\ command_queue[Len(command_queue)] = vc_turn.queued

\* C12: for every segment on which recognize returned a command, exactly one
\* of VOICE_COMMAND and VOICE_NOISE is published, VOICE_COMMAND if and only if
\* the command is neither NONE nor NOISE, and only then the action is put on
\* the polling queue.
C12_OneEventPerSegment ==
  (vc_op = "turn" /\ vc_turn.segment /\ vc_turn.outcome # "raise") => OneVoiceEvent

\* the same for the turns that end without an exception
OneEventPerSegmentWithoutError ==
  (vc_op = "turn" /\ vc_turn.segment /\ ~vc_turn.error) => OneVoiceEvent

\* a recognised command during calibration: the turn ends in the handler
\* with VOICE_ERROR alone
CalibrationTurnFails ==
  /\ vc_op = "turn" /\ vc_turn.segment /\ vc_turn.outcome = "JUMP" /\ vc_turn.error
  /\ vc_published = <<VoiceEvent(VOICE_ERROR, "-")>>

\* ------------------------------------------------------------------------
\* Event bus: raising callbacks, unsubscribe
\* ------------------------------------------------------------------------
\* C13: a callback that raises stops neither the remaining callbacks of the
\* event nor the dispatcher: the callback in the next slot of the snapshot is
\* invoked next (in subscription order), and the dispatcher thread ends only
\* through stop().
C13_RaisingCallbackIsolated ==
  /\ d_pc = "exited" => ever_stopped
  /\ \A i \in DeliveredIdx :
       (/\ delivered[i].cb \in RaisingCallbacks
        /\ delivered[i].id > 0
        /\ delivered[i].slot < Len(snap_of[delivered[i].id]))
         => \/ /\ i = Len(delivered)
               /\ d_pc = "call"
               /\ d_event.id = delivered[i].id
               /\ d_idx = delivered[i].slot + 1
            \/ /\ i < Len(delivered)
               /\ delivered[i + 1].id = delivered[i].id
               /\ delivered[i + 1].slot = delivered[i].slot + 1
               /\ delivered[i + 1].cb = snap_of[delivered[i].id][delivered[i].slot + 1]

\* C13 witness: a raising callback was invoked first for an event, the other
\* callback was invoked for it afterwards, and a later event was delivered too
C13_Witness ==
  \E i, k \in DeliveredIdx :
    /\ i + 1 < k
    /\ delivered[i].cb \in RaisingCallbacks
    /\ delivered[i].slot = 1
    /\ delivered[i + 1].id = delivered[i].id
    /\ delivered[i + 1].cb \notin RaisingCallbacks
    /\ delivered[k].id > delivered[i].id

\* C14: once unsubscribe(type, cb) has returned (and cb has not been
\* subscribed to the type again), cb is not invoked for an event of the type
\* that was published after the return.
C14_NoDeliveryAfterUnsubscribe ==
  \A i \in DeliveredIdx :
    ~(/\ delivered[i].type = last_unsub.type
      /\ delivered[i].cb = last_unsub.cb
      /\ delivered[i].id > last_unsub.at)

\* the same when the unsubscribe removed the only subscription of cb
NoDeliveryAfterLastSubscriptionRemoved ==
  \A i \in DeliveredIdx :
    ~(/\ delivered[i].type = last_unsub.type
      /\ delivered[i].cb = last_unsub.cb
      /\ delivered[i].id > last_unsub.at
      /\ last_unsub.left = 0)

\* an unsubscribe that left a second subscription of cb in the list, and a
\* later event delivered to cb
DeliveredAfterUnsubscribe ==
  \E i \in DeliveredIdx :
    /\ delivered[i].type = last_unsub.type
    /\ delivered[i].cb = last_unsub.cb
    /\ delivered[i].id > last_unsub.at
    /\ last_unsub.left = 1

\* ------------------------------------------------------------------------
\* EventBus singleton: properties
\* ------------------------------------------------------------------------
\* every EventBus() call that has returned or is in __init__ has the one object
SameObject ==
  \A th \in Threads :
    /\ c_ret[th] # 0 => c_ret[th] = cls_instance
    /\ c_obj[th] # 0 => c_obj[th] = cls_instance

\* C15: all constructions, racing ones included, return the same object, and
\* no construction replaces a subscriber map or a queue that holds something.
C15_ThreadSafeSingleton == SameObject /\ ~sg_discarded

\* a racing construction has discarded what the other thread had put on the
\* bus it was given
DiscardedByRacingInit ==
  /\ sg_discarded
  /\ \A th \in Threads : c_ret[th] = cls_instance /\ c_pc[th] = "idle"

\* an EventBus() call that begins when the bus is initialised leaves the map
\* and the queue alone
LaterConstructionKeepsState ==
  [][\A th \in Threads :
       (SingletonNew(th) /\ sg_initialized)
         => (sg_initialized' /\ c_pc'[th] = "init"
             /\ sg_subscribers' = sg_subscribers /\ sg_queue' = sg_queue)]_vars

\* ------------------------------------------------------------------------
\* Ring buffer: properties
\* ------------------------------------------------------------------------
\* the last sample of a read is the last sample of its chunk
EndsOnChunk(data) == data # <<>> => data[Len(data)].k = data[Len(data)].n

\* C20: the ring buffer never holds more than its capacity; it holds exactly
\* the samples appended last (since the last clear), in the order of their
\* appending; and what a read returns never ends inside a chunk.
C20_RingBuffer ==
  /\ Len(rb_buffer) <= RingCapacity
  /\ rb_buffer = LastN(rb_log, RingCapacity)
  /\ EndsOnChunk(rb_read.data)

\* C20 witness: more samples than the capacity were appended, the oldest were
\* evicted, and a read returned the full buffer
C20_Witness ==
  /\ Len(rb_log) > RingCapacity
  /\ Len(rb_buffer) = RingCapacity
  /\ rb_lock = "free"
  /\ rb_read.op = "get_all"
  /\ rb_read.data = rb_buffer

\* a read was attempted while an append held the lock and had put a part of
\* its chunk in the buffer: it had to wait
ReaderWaits ==
  /\ rb_lock = "writer"
  /\ rb_pending # <<>>
  /\ rb_buffer # <<>>
  /\ rb_buffer[Len(rb_buffer)].k < rb_buffer[Len(rb_buffer)].n
  /\ ~ENABLED GetAll

\* C21: get_last_ms never returns more samples than the duration asked for
\* holds, a duration of zero included.
C21_LastMsBounded ==
  rb_read.op = "get_last_ms" => Len(rb_read.data) <= rb_read.n

\* for a duration of one sample or more, get_last_ms returns the last
\* min(occupancy, n) samples of the buffer
LastMsOfPositiveDuration ==
  [][ (rb_read' # rb_read /\ rb_read'.op = "get_last_ms" /\ rb_read'.n > 0)
        => rb_read'.data = LastN(rb_buffer, rb_read'.n) ]_vars

\* get_last_ms for a duration of zero has returned the whole buffer
ZeroDurationReturnsAll ==
  /\ rb_read.op = "get_last_ms"
  /\ rb_read.n = 0
  /\ rb_read.data = rb_buffer
  /\ Len(rb_buffer) = RingCapacity

\* the sum of weight * conf over the methods that voted for a label
RECURSIVE LabelScore(_, _)
LabelScore(voters, label) ==
  IF voters = {} THEN 0
  ELSE LET m == CHOOSE x \in voters : TRUE
       IN WeightGet(SoftWeights(ens_in.adaptive, ens_in.snr), m, 10)
            * SoftConf(m, ens_in.results[m])
          + LabelScore(voters \ {m}, label)
Voters(label) == {m \in DOMAIN ens_in.results : ens_in.results[m].command = label}
VotedLabels == {ens_in.results[m].command : m \in DOMAIN ens_in.results}

\* C22: soft voting reports a label whose summed weight * conf over the
\* methods that voted for it is the largest, and the method and template
\* it reports are those of a highest-weight method that voted for it.
C22_SoftVoting ==
  ens_op = "recognize" =>
    /\ ens_ret.command \in VotedLabels
    /\ \A l \in VotedLabels :
         LabelScore(Voters(l), l) <= LabelScore(Voters(ens_ret.command), ens_ret.command)
    /\ ens_ret.method \in Voters(ens_ret.command)
    /\ ens_ret.best_template = ens_in.results[ens_ret.method].best_template
    /\ \A m \in Voters(ens_ret.command) :
         WeightGet(SoftWeights(ens_in.adaptive, ens_in.snr), m, 10)
           <= WeightGet(SoftWeights(ens_in.adaptive, ens_in.snr), ens_ret.method, 10)
\* the lighter methods outvote the heaviest one: mfcc_dtw votes one command,
\* mel and lpc another, and the second one wins
C22_Witness ==
  /\ ens_op = "recognize"
  /\ Len(ens_methods) = 3
  /\ ens_in.results["mfcc_dtw"].command \in Commands
  /\ ens_in.results["mel"].command \in Commands
  /\ ens_in.results["mel"].command # ens_in.results["mfcc_dtw"].command
  /\ ens_ret.command = ens_in.results["mel"].command
  /\ ens_ret.method = "mel"

\* C23: the confidence of every response of recognize and of
\* recognize_voting lies between 0 and 1.
C23_ConfidenceInUnitInterval ==
  ens_op \in {"recognize", "recognize_voting"} =>
    (0 <= ens_ret.conf_num /\ ens_ret.conf_num <= ens_ret.conf_den)
\* for soft voting the bounds hold
SoftConfidenceInUnitInterval ==
  ens_op = "recognize" => (0 <= ens_ret.conf_num /\ ens_ret.conf_num <= ens_ret.conf_den)
\* hard voting on a segment every method answers NONE to: no vote is cast
\* and the confidence is -1 / total_possible_votes
NoVoteNegativeConfidence ==
  /\ ens_op = "recognize_voting"
  /\ ens_methods = DefaultMethods
  /\ \A m \in DOMAIN ens_in.results : ens_in.results[m].command = "NONE"
  /\ ens_ret.conf_num < 0
\* hard voting with the NOISE super vote, which total_possible_votes leaves out
SuperVoteAboveOne ==
  /\ ens_op = "recognize_voting"
  /\ ens_ret.command = "NOISE"
  /\ ens_ret.conf_num > ens_ret.conf_den

\* ------------------------------------------------------------------------
\* Voice controller: calibration
\* ------------------------------------------------------------------------
\* C24: while the controller runs, a calibration that was started ends by
\* itself: once its 10 s are over the target is cleared, whether or not
\* another segment arrives (unless the controller is stopped or the
\* calibration started anew first).
C24_CalibrationTerminates ==
  (vc_running /\ calibration_target # NoTarget /\ calibration_expired)
    ~> (calibration_target = NoTarget \/ ~vc_running \/ ~calibration_expired)
\* the loop clears the target only in a turn in which the VAD emitted a
\* segment; otherwise only stop_calibration_mode does
TargetClearedOnlyOnSegment ==
  [][ (calibration_target # NoTarget /\ calibration_target' = NoTarget)
        => (vc_op' = "stop_calibration_mode" \/ (vc_op' = "turn" /\ vc_turn'.segment)) ]_vars
\* no operation of the controller publishes a calibration result
NoCalibrationResult ==
  \A i \in 1..Len(vc_published) : vc_published[i].type # "calibration_result"
\* the 10 s are over, the loop has taken a turn on a quiet chunk, and the
\* target is still set
ExpiredAndStillCalibrating ==
  /\ vc_running /\ calibration_target # NoTarget /\ calibration_expired
  /\ vc_op = "turn" /\ ~vc_turn.segment /\ vc_vad.state = SILENCE

\* a turn of the loop during calibration in which the VAD emitted a segment
\* and recognize returned a command for it
CalibrationTurn ==
  /\ calibration_target # NoTarget
  /\ vc_op' = "turn" /\ vc_turn'.segment /\ vc_turn'.outcome # "raise"
\* every matcher got exactly one more template, the segment
OneTemplateAdded ==
  \A m \in Methods : cal_templates'[m] = Append(cal_templates[m], "segment")
\* the turn published CALIBRATION_RESULT
ResultPublished ==
  \E i \in 1..Len(vc_published') : vc_published'[i].type = "calibration_result"

\* C25: in normal calibration a segment, for which the 10 s are not over and
\* add_template does not raise, adds a template exactly when its command is
\* the target: then every matcher gets one template, CALIBRATION_RESULT is
\* published and the target is cleared; any other segment leaves the
\* templates and the target as they were.
C25_NormalCalibration ==
  [][ (CalibrationTurn /\ ~freedom_mode /\ vc_turn'.cal \in {"ok", "invalid"}) =>
        IF vc_turn'.outcome = calibration_target
          THEN OneTemplateAdded /\ ResultPublished /\ calibration_target' = NoTarget
          ELSE UNCHANGED <<cal_templates, calibration_target>> ]_vars
\* what the loop does do: the template is added exactly on a match, and a
\* segment that does not match leaves templates and target alone
TemplateAddedOnMatch ==
  [][ (CalibrationTurn /\ ~freedom_mode /\ vc_turn'.cal \in {"ok", "invalid"}) =>
        IF vc_turn'.outcome = calibration_target
          THEN OneTemplateAdded
          ELSE UNCHANGED <<cal_templates, calibration_target>> ]_vars
\* after a match the template is in the store, the target is still set and
\* the turn ended in the handler with VOICE_ERROR alone
MatchLeavesTargetSet ==
  /\ vc_op = "turn" /\ vc_turn.segment /\ ~freedom_mode
  /\ vc_turn.outcome = calibration_target /\ vc_turn.cal = "ok"
  /\ \A m \in Methods : cal_templates[m] = <<"file", "segment">>
  /\ vc_published = <<VoiceEvent(VOICE_ERROR, "-")>>

\* every template a matcher held before the step is still in its place
TemplatesStillInPlace ==
  \A m \in Methods :
    /\ Len(cal_templates'[m]) >= Len(cal_templates[m])
    /\ SubSeq(cal_templates'[m], 1, Len(cal_templates[m])) = cal_templates[m]

\* C26: in freedom mode, after a successful calibration every matcher holds
\* exactly one template for the command, the captured segment; and when
\* adding the template fails the templates the command had are still there.
C26_FreedomCalibration ==
  [][ (CalibrationTurn /\ freedom_mode) =>
        /\ (calibration_target' = NoTarget /\ ~vc_turn'.error)
             => \A m \in Methods : cal_templates'[m] = <<"segment">>
        /\ vc_turn'.cal \in {"add_fails_first", "add_fails_last"}
             => TemplatesStillInPlace ]_vars
\* when add_template goes through, every matcher holds the segment alone
FreedomAddReplaces ==
  (vc_op = "turn" /\ vc_turn.segment /\ freedom_mode /\ vc_turn.cal = "ok")
    => \A m \in Methods : cal_templates[m] = <<"segment">>
\* when add_template raises in a matcher, that matcher and the ones after it
\* hold no template for the command
FailedAddLeavesNone ==
  (vc_op = "turn" /\ vc_turn.segment /\ freedom_mode
     /\ vc_turn.cal \in {"add_fails_first", "add_fails_last"})
    => cal_templates["lpc"] = <<>>
\* a failed add after an earlier capture
FailedAddAfterCapture ==
  /\ vc_op = "turn" /\ vc_turn.segment /\ freedom_mode
  /\ vc_turn.cal = "add_fails_first"
  /\ \A m \in Methods : cal_templates[m] = <<>>

\* ------------------------------------------------------------------------
\* VAD shared between threads
\* ------------------------------------------------------------------------
\* C27: no interleaving of the server thread with the recognition thread
\* leaves the VAD in PROCESSING while the loop waits for the next chunk: a
\* VAD in PROCESSING always has its segment in the hands of the loop.
C27_NoStuckProcessing ==
  rv_state = PROCESSING => t_pc \in {"l89", "l90", "l91", "recognise"}
\* the server thread has written a field of the VAD while the recognition
\* thread is inside process_chunk
ResetInsideProcessChunk ==
  /\ x_pc \in {"l108", "l109", "l110"}
  /\ t_pc \notin {"idle", "recognise"}
\* process_chunk raised on the emptied buffer; the VAD is in PROCESSING and
\* the loop is back at get_chunk
SegmentLostInProcessing ==
  /\ t_pc = "idle" /\ t_ret.kind = "raise"
  /\ rv_state = PROCESSING /\ rv_buffer = 0
\* without calls from the server thread the VAD is never stuck
NoStuckProcessingAlone ==
  n_resets = 0 => C27_NoStuckProcessing

\* ------------------------------------------------------------------------
\* ECG events
\* ------------------------------------------------------------------------
\* the ECG_PEAK events among the events of a step
PeakEvents(published) == {i \in 1..Len(published) : published[i].type = ECG_PEAK}

\* C28: every confirmed R peak results in one ECG_PEAK event, in the adapter
\* and in the manager, the first peak and a peak with an RR interval outside
\* 0.4-1.5 s included.
C28_EventPerConfirmedPeak ==
  [][ /\ peak_indices_history' # peak_indices_history =>
           Cardinality(PeakEvents(a_published'))
             = Len(peak_indices_history') - Len(peak_indices_history)
      /\ peak_history' # peak_history =>
           Cardinality(PeakEvents(m_published'))
             = Len(peak_history') - Len(peak_history) ]_vars
\* the manager publishes one ECG_PEAK for every peak it records
MgrEventPerPeak ==
  [][ peak_history' # peak_history =>
        Cardinality(PeakEvents(m_published')) = Len(peak_history') - Len(peak_history) ]_vars
\* the adapter has recorded its first peak and published nothing
FirstPeakWithoutEvent ==
  /\ a_op = "loop_real"
  /\ Len(peak_indices_history) = 1
  /\ a_published = <<>>

\* the events follow each other in pairs: an ECG_PEAK, then the
\* ECG_BPM_UPDATE with the same bpm
WellPaired(published) ==
  \A i \in 1..Len(published) :
    /\ published[i].type = ECG_PEAK =>
         /\ i < Len(published)
         /\ published[i + 1].type = ECG_BPM_UPDATE
         /\ published[i + 1].bpm = published[i].bpm
    /\ published[i].type = ECG_BPM_UPDATE =>
         /\ i > 1
         /\ published[i - 1].type = ECG_PEAK
         /\ published[i - 1].bpm = published[i].bpm

\* C29: every ECG_PEAK a component publishes is followed at once by an
\* ECG_BPM_UPDATE with the same bpm, and every ECG_BPM_UPDATE follows such
\* an ECG_PEAK.
C29_PeakFollowedByBpm ==
  /\ WellPaired(a_published)
  /\ WellPaired(m_published)
\* the adapter publishes its events in pairs, in REAL and in FALLBACK
AdapterEventsPaired == WellPaired(a_published)
\* the manager never publishes an ECG_BPM_UPDATE without its ECG_PEAK
MgrBpmFollowsPeak ==
  \A i \in 1..Len(m_published) :
    m_published[i].type = ECG_BPM_UPDATE =>
      /\ i > 1
      /\ m_published[i - 1].type = ECG_PEAK
      /\ m_published[i - 1].bpm = m_published[i].bpm
\* the manager has published the ECG_PEAK of its first peak, with bpm 0, alone
MgrPeakWithoutBpm ==
  /\ Len(peak_history) = 1
  /\ Len(m_published) = 1
  /\ m_published[1].type = ECG_PEAK
  /\ m_published[1].bpm[1] = 0
\* the adapter has published a pair for an R peak of the signal
RealPeakPair ==
  /\ a_op = "loop_real"
  /\ Len(a_published) = 2
  /\ WellPaired(a_published)

\* the dir after the ECG_PEAK events among the first i events of a step that
\* started with _last_peak_dir = dir
DirAfter(dir, published, i) ==
  IF Cardinality({j \in PeakEvents(published) : j <= i}) % 2 = 1 THEN -dir ELSE dir

\* the events of one turn carry alternating dirs that continue from
\* _last_peak_dir, and _last_peak_dir ends as the dir of the last of them
DirsContinue(dir, published, dir_after) ==
  /\ \A i \in PeakEvents(published) : published[i].dir = DirAfter(dir, published, i)
  /\ dir_after = DirAfter(dir, published, Len(published))

\* a turn of the adapter's loop, in REAL or in FALLBACK
AdapterTurn ==
  /\ now' = now
  /\ adapterVars' # adapterVars
  /\ a_op' \in {"loop_real", "loop_fallback"}

\* C30: consecutive ECG_PEAK events of one component carry opposite dirs, in
\* the adapter across its switches between REAL and FALLBACK, and in the
\* manager: each turn's events continue the alternation from the dir of the
\* last event published before, which _last_peak_dir holds.
C30_DirAlternates ==
  [][ /\ AdapterTurn =>
           DirsContinue(a_last_peak_dir, a_published', a_last_peak_dir')
      /\ ~AdapterTurn => a_last_peak_dir' = a_last_peak_dir
      /\ m_sample_counter' # m_sample_counter =>
           DirsContinue(m_last_peak_dir, m_published', m_last_peak_dir')
      /\ m_sample_counter' = m_sample_counter => m_last_peak_dir' = m_last_peak_dir ]_vars
\* the first ECG_PEAK of a component carries dir -1
FirstDirIsMinusOne ==
  /\ (Len(peak_history) = 1 /\ m_published # <<>>) => m_published[1].dir = -1
\* the adapter has published the ECG_PEAK of an R peak with dir +1 in REAL,
\* after an ECG_PEAK with dir -1 in FALLBACK
RealPeakAfterFallbackPeak ==
  /\ a_op = "loop_real"
  /\ Len(a_published) = 2
  /\ a_published[1].type = ECG_PEAK
  /\ a_published[1].dir = 1
  /\ last_fallback_peak_time > 0
  /\ Len(peak_indices_history) = 2
\* the adapter has published an ECG_PEAK with dir +1 in FALLBACK, after the
\* ECG_PEAK of an R peak with dir -1 in REAL
FallbackPeakAfterRealPeak ==
  /\ a_op = "loop_fallback"
  /\ Len(a_published) = 2
  /\ a_published[1].dir = 1
  /\ Len(peak_indices_history) = 2
  /\ Len(a_rr_history) = 1

\* The bpm_threshold values an adapter is constructed with: the default, the
\* value of the adapter test, and one above the 100 bpm of the R peaks that
\* the reads of the event specification carry.
\* __init__ stores the parameter in self.bpm_threshold and no method reads
\* it, so no action of the adapter depends on it.
BpmThresholds == {-10, 40, 110}

\* bpm < threshold, for a bpm <<numerator, denominator>>
BpmBelow(bpm, threshold) == bpm[1] < threshold * bpm[2]

\* the turn in REAL has published a bpm below the threshold
DetectedBelow(threshold) ==
  /\ a_op' = "loop_real"
  /\ adapterVars' # adapterVars
  /\ \E i \in PeakEvents(a_published') : BpmBelow(a_published'[i].bpm, threshold)

\* C31: in REAL, a turn that detects a BPM below bpm_threshold switches the
\* adapter to FALLBACK, whatever threshold it was constructed with.
C31_LowBpmSwitchesToFallback ==
  [][ \A threshold \in BpmThresholds : DetectedBelow(threshold) => use_fallback' ]_vars
\* a turn in REAL that publishes a peak leaves the adapter in REAL
PeakTurnStaysReal ==
  [][ (a_op' = "loop_real" /\ adapterVars' # adapterVars /\ a_published' # <<>>)
        => ~use_fallback' ]_vars
\* the adapter has published a bpm below 110 and is still in REAL
LowBpmStillReal ==
  /\ a_op = "loop_real"
  /\ ~use_fallback
  /\ \E i \in PeakEvents(a_published) : BpmBelow(a_published[i].bpm, 110)

\* a turn of the adapter's loop in FALLBACK
FallbackTurn ==
  /\ now' = now
  /\ adapterVars' # adapterVars
  /\ a_op' = "loop_fallback"

\* the pair of events of one synthetic peak
SyntheticPair(published) ==
  /\ Len(published) = 2
  /\ published[1].type = ECG_PEAK
  /\ published[1].value = 800
  /\ published[1].bpm = "fallback_bpm"
  /\ published[2] = BpmEvent("fallback_bpm")

\* C32: in FALLBACK the adapter publishes synthetic peaks of amplitude 800
\* and bpm = fallback_bpm: a turn publishes one exactly when the interval
\* 60/fallback_bpm has passed since the synthetic peak before, whose time
\* last_fallback_peak_time holds, so two of them are never closer than the
\* interval and the first turn at which it has elapsed publishes.
C32_SyntheticPeakInterval ==
  [][ /\ FallbackTurn =>
           IF now - last_fallback_peak_time >= fallback_interval_sec
             THEN SyntheticPair(a_published') /\ last_fallback_peak_time' = now
             ELSE a_published' = <<>> /\ last_fallback_peak_time' = last_fallback_peak_time
      /\ ~FallbackTurn => last_fallback_peak_time' = last_fallback_peak_time ]_vars
\* a second synthetic peak has been published, one interval after the first
SecondSyntheticPeak ==
  /\ a_op = "loop_fallback"
  /\ SyntheticPair(a_published)
  /\ a_published[1].dir = 1
  /\ last_fallback_peak_time = 2 * fallback_interval_sec
  /\ peak_indices_history = <<>>

\* ------------------------------------------------------------------------
\* Serial line parsing: properties
\* ------------------------------------------------------------------------
\* the value of a newline-terminated line is a sample: it parses as a float
\* within the band
IsSampleLine(line) == ParsesAsFloat(Strip(line)) /\ InBand(FloatOf(Strip(line)))

\* the values of the complete lines among the bytes, in order
ExpectedSamples(bytes) ==
  LET lines == SplitLines(bytes)
      good == SelectSeq(SubSeq(lines, 1, Len(lines) - 1), IsSampleLine)
  IN [i \in 1..Len(good) |-> FloatOf(Strip(good[i]))]

\* C33: the samples fed to the filter chain are the in-band values of the
\* complete lines of the bytes read so far, in order, however the reads
\* split the stream.
C33_SamplesAreCompleteLines == sp_fed = ExpectedSamples(SubSeq(stream, 1, sp_pos))
\* the manager feeds the values of the complete lines
MgrFeedsCompleteLines ==
  sp_reader = "manager" => sp_fed = ExpectedSamples(SubSeq(stream, 1, sp_pos))
\* the adapter has fed the line "15" as the two samples 1 and 5
SplitLineFedTwice ==
  /\ sp_reader = "adapter"
  /\ SubSeq(stream, 1, sp_pos) = <<"1", "5", NL>>
  /\ sp_fed = <<1, 5>>
\* the adapter has fed a value outside the band
OutOfBandFed ==
  /\ sp_reader = "adapter"
  /\ \E i \in 1..Len(sp_fed) : ~InBand(sp_fed[i])
\* the adapter has fed the unfinished line "15" before its newline arrived
UnfinishedLineFed ==
  /\ sp_reader = "adapter"
  /\ SubSeq(stream, 1, sp_pos) = <<"1", "5">>
  /\ sp_fed = <<15>>

\* ------------------------------------------------------------------------
\* RR window: properties
\* ------------------------------------------------------------------------
\* 0.4 s <= rr / FS <= 1.5 s, both bounds included
RRWithinBounds(rr) == 2 * FS <= 5 * rr /\ 2 * rr <= 3 * FS

\* the window after interval rr has joined it: the 5 most recent intervals
WindowWith(window, rr) ==
  LET all == Append(window, rr)
  IN IF Len(all) > 5 THEN SubSeq(all, Len(all) - 4, Len(all)) ELSE all

\* the step records one more peak, after an earlier one
NextPeakRecorded(hist, hist_after) ==
  Len(hist_after) = Len(hist) + 1 /\ Len(hist_after) >= 2

LastRR(hist) == hist[Len(hist)] - hist[Len(hist) - 1]

\* the window of a detector over a step that records a peak, when Accepts
\* tells which intervals join it, and the bpm of the events it publishes
RRWindowStep(Accepts(_), hist, hist_after, window, window_after, published) ==
  /\ Len(window_after) <= 5
  /\ NextPeakRecorded(hist, hist_after) =>
       /\ window_after = IF Accepts(LastRR(hist_after))
                           THEN WindowWith(window, LastRR(hist_after))
                           ELSE window
       /\ \A i \in PeakEvents(published) :
            window_after # <<>> => published[i].bpm = BpmOf(window_after)

\* C34: the RR window holds at most the 5 most recent accepted intervals, an
\* interval is accepted exactly when it lies within [0.4 s, 1.5 s], bounds
\* included, and the bpm reported with a peak is 60 / mean(window).
C34_RRWindow ==
  [][ /\ RRWindowStep(RRWithinBounds, peak_indices_history, peak_indices_history',
                      a_rr_history, a_rr_history', a_published')
      /\ RRWindowStep(RRWithinBounds, peak_history, peak_history',
                      m_rr_history, m_rr_history', m_published') ]_vars
\* the same with the bounds excluded: 0.4 s < rr < 1.5 s
RRWindowOpenBounds ==
  [][ /\ RRWindowStep(RRValid, peak_indices_history, peak_indices_history',
                      a_rr_history, a_rr_history', a_published')
      /\ RRWindowStep(RRValid, peak_history, peak_history',
                      m_rr_history, m_rr_history', m_published') ]_vars
\* the manager has recorded two peaks 0.4 s apart and its window is empty
BoundaryIntervalRejected ==
  /\ Len(peak_history) = 2
  /\ 5 * LastRR(peak_history) = 2 * FS
  /\ m_rr_history = <<>>

\* ------------------------------------------------------------------------
\* EventBus.reset_instance: properties
\* ------------------------------------------------------------------------
\* C35: a reset_instance call that has begun returns, with or without an
\* instance and with or without a running dispatcher, and the EventBus()
\* after it is a new object with no subscribers and an empty queue.
C35_ResetInstanceReturns ==
  /\ (rs_pc # "idle") ~> (rs_pc = "idle")
  /\ [][ (rs_pc # "idle" /\ rs_pc' = "idle") => rs_instance' = 0 ]_vars
  /\ [][ (rs_instance = 0 /\ rs_instance' # 0) =>
           /\ rs_instance' = rs_objects + 1
           /\ rs_subscribers' = 0
           /\ rs_queue' = 0 ]_vars
\* without an instance the call returns
ResetWithoutInstanceReturns ==
  (rs_pc = "test" /\ rs_instance = 0) ~> (rs_pc = "idle")
\* a call that has reached clear() stays there
ResetStaysInClear == [][ rs_pc = "clear" => rs_pc' = "clear" ]_vars
\* reset_instance holds the class lock and waits for it in clear(), the
\* dispatcher stopped by it
ResetBlockedInClear ==
  /\ rs_pc = "clear"
  /\ rs_lock = "reset_instance"
  /\ rs_instance # 0
  /\ ~rs_running
  /\ rs_queue > 0
\* the same on an instance that was never started
ResetBlockedNeverStarted ==
  /\ rs_pc = "clear"
  /\ rs_lock = "reset_instance"
  /\ rs_instance # 0
  /\ rs_queue = 0
  /\ ~rs_thread

\* ------------------------------------------------------------------------
\* Event bus, restarted: properties
\* ------------------------------------------------------------------------
\* event e was published after the start() that followed a stop(), on the
\* bus that start() set running
PublishedAfterRestart(e) ==
  /\ ever_stopped
  /\ bus_running
  /\ pub_at_start < e
  /\ e <= next_id

\* C36: after stop() and start() the dispatcher does not end while the bus
\* is running, and every event published after that start() is eventually
\* handed to the subscribers of its type.
C36_RestartDelivers ==
  /\ [](bus_running => d_pc # "exited")
  /\ \A e \in 1..MaxCalls :
       PublishedAfterRestart(e) ~> (e \in dispatched \/ ~bus_running)
\* on a bus that was never stopped the dispatcher lives as long as the bus runs
FirstDispatcherLives == (bus_running /\ ~ever_stopped) => d_pc # "exited"
\* the dispatcher of the restarted bus has ended on the SYSTEM_SHUTDOWN of the
\* earlier stop(), and an event published after the restart waits in the queue
StaleShutdownEndedDispatcher ==
  /\ bus_running
  /\ stop_pc = "idle"
  /\ d_pc = "exited"
  /\ \E i \in 1..Len(bus_queue) : PublishedAfterRestart(bus_queue[i].id)
\* start() has spawned a dispatcher with the SYSTEM_SHUTDOWN of the earlier
\* stop() still in the queue
ShutdownLeftInQueue ==
  /\ bus_running
  /\ ever_stopped
  /\ d_pc = "loop"
  /\ bus_queue # <<>>
  /\ bus_queue[1].type = SYSTEM_SHUTDOWN

\* ------------------------------------------------------------------------
\* ECG adapter, batches: properties
\* ------------------------------------------------------------------------
\* the samples a batch of n read at sample_counter = base examines as peak
\* candidates: the one before each sample the loop does not skip
ExaminedCandidates(base, n, mwi_buf) ==
  {base + i - 1 : i \in {j \in 0..(n - 1) : ~SkipsSample(j, n, mwi_buf)}}

\* the MWI value of sample c, of `total` samples received
MwiAt(mwi_buf, total, c) == BufAt(mwi_buf, -(total - c))

\* sample c is a strict local maximum above both thresholds
StrictLocalMaxAbove(mwi_buf, total, c, thr_x10, thr_after_x10) ==
  /\ MwiAt(mwi_buf, total, c) > MwiAt(mwi_buf, total, c - 1)
  /\ MwiAt(mwi_buf, total, c) > MwiAt(mwi_buf, total, c + 1)
  /\ 10 * MwiAt(mwi_buf, total, c) > thr_x10
  /\ 10 * MwiAt(mwi_buf, total, c) > thr_after_x10

\* C37: every MWI sample that is a strict local maximum above the threshold
\* is examined as a peak candidate exactly once, whatever the batches: the
\* turn that receives the sample after it examines it, and a turn examines
\* no other candidates than those whose next sample it received.
C37_BatchIndependentCandidates ==
  [][ a_sample_counter' > a_sample_counter =>
        LET n == a_sample_counter' - a_sample_counter
            examined == ExaminedCandidates(a_sample_counter, n, sig_mwi_buf')
            due == (a_sample_counter - 1)..(a_sample_counter' - 2)
        IN /\ examined \subseteq due
           /\ \A c \in due :
                (c >= 0 /\ StrictLocalMaxAbove(sig_mwi_buf', a_sample_counter', c,
                                               threshold_mwi_x10, threshold_mwi_x10'))
                  => c \in examined ]_vars
\* a turn examines no candidate twice and none whose next sample is missing
NoCandidateExaminedTwice ==
  [][ a_sample_counter' > a_sample_counter =>
        ExaminedCandidates(a_sample_counter, a_sample_counter' - a_sample_counter,
                           sig_mwi_buf')
          \subseteq (a_sample_counter - 1)..(a_sample_counter' - 2) ]_vars
\* the six samples 0, 0, 100, 0, 0, 0 have been received
SixSamplesWithPeak ==
  /\ a_op = "loop_real"
  /\ a_sample_counter = 6
  /\ LastN(sig_mwi_buf, 6) = <<0, 0, 100, 0, 0, 0>>
\* read in some batches, they give the adapter a peak
PeakFoundInSomeBatches == SixSamplesWithPeak /\ Len(peak_indices_history) = 1
\* read in other batches, the same samples give it no peak
PeakMissedInOtherBatches == SixSamplesWithPeak /\ peak_indices_history = <<>>


\* ------------------------------------------------------------------------
\* ECG adapter, no-signal timeout: properties
\* ------------------------------------------------------------------------
\* the step is a turn in REAL that finds no byte waiting and gives up the
\* hardware
TimeoutSwitch == ~use_fallback /\ use_fallback' /\ LoopReal(SilentRead)

\* the time at which the adapter entered REAL: start() and the retry of the
\* processing loop enter it through a successful _init_ecg_hardware only
RealEntryTime == last_attempt_time

\* a running adapter in REAL got there by a successful _init_ecg_hardware
RealEnteredByInit == (a_running /\ ~use_fallback) => init_result = "ok"

\* C38: the no-signal timeout is measured from the entry to REAL: the adapter
\* does not switch to FALLBACK before no_signal_timeout seconds have passed
\* in REAL.
C38_TimeoutFromRealEntry ==
  [][ TimeoutSwitch => now - RealEntryTime >= no_signal_timeout ]_vars

\* the timeout is measured from last_peak_time, whenever that was set
TimeoutFromLastPeakTime ==
  [][ TimeoutSwitch => NoSignalTimedOut(now, last_peak_time) ]_vars

\* after a peak confirmed in this stay in REAL the full timeout passes first
TimeoutAfterPeakInReal ==
  [][ (TimeoutSwitch /\ last_peak_time >= RealEntryTime)
        => now - RealEntryTime > no_signal_timeout ]_vars

\* the adapter gave up the hardware one second after it entered REAL
TimedOutRightAfterEntry ==
  /\ a_op = "loop_real"
  /\ a_running /\ use_fallback
  /\ init_result = "ok"
  /\ last_retry_time < now
  /\ now - RealEntryTime = 1

\* the adapter gave up the hardware after the full timeout and a peak
TimedOutAfterPeak ==
  /\ a_op = "loop_real"
  /\ a_running /\ use_fallback
  /\ init_result = "ok"
  /\ last_retry_time < now
  /\ last_peak_time > RealEntryTime
  /\ now - last_peak_time > no_signal_timeout


\* ------------------------------------------------------------------------
\* Calibration mode between two threads: properties
\* ------------------------------------------------------------------------
\* the published result events carry a command calibration was started for
ResultsCarryCommand ==
  \A i \in 1..Len(cm_events) :
    cm_events[i].type = "CALIBRATION_RESULT" => cm_events[i].command \in cm_given

\* no template was cleared or added under None
NoTemplateUnderNone ==
  /\ NoTarget \notin cm_cleared
  /\ NoTarget \notin cm_added
  /\ ~HasTemplates(cm_templates, NoTarget)

\* C39: every CALIBRATION_RESULT event carries the command given to the
\* calibration it reports on, never None, and no template is cleared or added
\* under a None command, whatever the interleaving of start_calibration_mode
\* and stop_calibration_mode with the recognition loop.
C39_CalibrationKeepsCommand == ResultsCarryCommand /\ NoTemplateUnderNone

\* as long as stop_calibration_mode was never called, the block sees a command
CommandKeptWithoutStop ==
  cm_stops = 0 => (ResultsCarryCommand /\ NoTemplateUnderNone)

\* outside freedom mode add_template gets the recognised command
RecognisedCommandAdded == ~cm_freedom => (NoTarget \notin cm_added)

\* no calibration event is ever published: EventType has no such members
NoCalibrationEvent == cm_events = <<>>

\* the matchers hold a template filed under None
TemplateFiledUnderNone ==
  /\ cm_freedom
  /\ cm_stops > 0
  /\ HasTemplates(cm_templates, NoTarget)
  /\ cm_templates[NoTarget] > 0

\* _clear_command_templates ran with None after the test of line 323 passed
ClearCalledWithNone ==
  /\ cm_freedom
  /\ cm_pc = "346"
  /\ NoTarget \in cm_cleared

\* a calibration without stop added its template in freedom mode
TemplateAddedForCommand ==
  /\ cm_freedom
  /\ cm_stops = 0
  /\ cm_added # {}


\* ------------------------------------------------------------------------
\* Template stores of the matchers: properties
\* ------------------------------------------------------------------------
\* every matcher holds the same number of noise templates
SameNoiseCount ==
  \A m1, m2 \in Methods : st_matchers[m1].noise = st_matchers[m2].noise

\* every matcher holds the same template names per command
SameTemplateNames ==
  \A m1, m2 \in Methods : st_matchers[m1].names = st_matchers[m2].names

\* in each matcher templates[c] and template_names[c] have equal length
NamesMatchTemplates ==
  \A m \in Methods :
    /\ DOMAIN st_matchers[m].templates = DOMAIN st_matchers[m].names
    /\ \A c \in DOMAIN st_matchers[m].templates :
         st_matchers[m].templates[c] = Len(st_matchers[m].names[c])

\* C40: after any sequence of add_template, add_noise_template and clears,
\* including calls in which feature extraction raises for one method, every
\* matcher holds the same number of noise templates and the same template
\* names per command, and templates[c] and template_names[c] have equal
\* length in each matcher.
C40_MatchersInStep == SameNoiseCount /\ SameTemplateNames /\ NamesMatchTemplates

\* as long as no call raised, the matchers are in step
InStepWithoutException == ~st_raised => (SameNoiseCount /\ SameTemplateNames)

\* add_template raised in a later matcher: the first one kept the template
TemplateInFirstMatcherOnly ==
  /\ st_op = "add_template"
  /\ st_raised
  /\ \E c \in Commands :
       /\ HasTemplates(st_matchers[DefaultMethods[1]].templates, c)
       /\ ~HasTemplates(st_matchers[DefaultMethods[2]].templates, c)

\* get_noise_template_count reports more than a matcher holds
NoiseCountOverstated ==
  /\ st_op = "add_noise_template"
  /\ \E m \in Methods : GetNoiseTemplateCount(st_matchers) > st_matchers[m].noise

\* a clear after a partial add leaves the matchers out of step
OutOfStepAfterClear ==
  /\ st_op = "clear"
  /\ st_raised
  /\ ~SameTemplateNames

====
